---- MODULE Spec2Model ----
(***************************************************************************)
(* ClearScript: the lexer (src/src/clearscript/lexer.py) and the           *)
(* expression parser (parser.py) turning source text into a Program, the   *)
(* code generator (codegen.py) lowering a parsed Program onto StateScript  *)
(* lines, and an instruction-trace simulation of the emitted lines on a    *)
(* machine with a return stack, an operand stack and flat named state.     *)
(***************************************************************************)
EXTENDS Integers, Sequences, FiniteSets, TLC

VARIABLES
    source,         \* Lexer.source: the program text, one character per element
    tokens,         \* the token list tokenize() returned
    failure,        \* the exception the lexer or the parser raised, if any
    ast,            \* CodeGenerator.ast: the Program handed to the generator
    phase,          \* "source" | "lexed" | "parsed" | "generated" | "failed" |
                    \* "running" | "halted"
    output,         \* CodeGenerator.output: the emitted lines, in order
    label_counter,  \* CodeGenerator.label_counter
    labels,         \* history: every string generate_label returned, in order
    error,          \* the exception generate() ended with, "" when none
    pc,             \* simulation: index of the next line of output
    rstack,         \* simulation: return stack (line indexes)
    ostack,         \* simulation: operand stack (values)
    env,            \* simulation: flat named state
    trace,          \* history: the executed lines, [ln, v], in order
    argv,           \* main: args = parser.parse_args(), the command line
    fs,             \* the files: path -> content
    stdout,         \* what was printed to sys.stdout, in order
    stderr,         \* what was printed to sys.stderr, in order
    stages,         \* history: the stages compile_file entered, in order
    status          \* the argument of sys.exit, <<>> before the call

\* the state of a run of the command line
CliVars == <<argv, fs, stdout, stderr, stages, status>>

vars == <<source, tokens, failure, ast, phase, output, label_counter, labels, error,
          pc, rstack, ostack, env, trace, CliVars>>

(***************************************************************************)
(* Bounds of the model.                                                    *)
(***************************************************************************)
MaxVal == 2      \* state values range over 0..MaxVal at start; INC stops there
MaxSteps == 26   \* length of the recorded instruction trace
MaxParams == 2   \* longest parameter / argument list
MaxCases == 2    \* most cases of a switch
MaxSrcLen == 3   \* longest source text drawn from the whole alphabet

(***************************************************************************)
(* AST nodes (ast_nodes.py).  Every node is a record with a kind.          *)
(***************************************************************************)
None == [kind |-> "None"]

Literal(v) ==
    [kind |-> "Literal", literal_type |-> "int", value |-> v, svalue |-> ""]

StringLiteral(s) ==
    [kind |-> "Literal", literal_type |-> "string", value |-> 0, svalue |-> s]

\* a float whose shortest repr is i.frac: value is the integer part, svalue
\* the fraction digits
FloatLiteral(i, frac) ==
    [kind |-> "Literal", literal_type |-> "float", value |-> i, svalue |-> frac]

Identifier(n) == [kind |-> "Identifier", name |-> n]

ArrayAccess(a, i) == [kind |-> "ArrayAccess", array |-> a, index |-> i]

MemberAccess(o, m) == [kind |-> "MemberAccess", object |-> o, member |-> m]

TernaryExpression(c, t, f) ==
    [kind |-> "TernaryExpression", condition |-> c, true_value |-> t,
     false_value |-> f]

BinaryOp(l, op, r) ==
    [kind |-> "BinaryOp", left |-> l, operator |-> op, right |-> r]

UnaryOp(op, e, post) ==
    [kind |-> "UnaryOp", operator |-> op, operand |-> e, is_postfix |-> post]

Assignment(t, v) == [kind |-> "Assignment", target |-> t, value |-> v]

FunctionCall(n, a) == [kind |-> "FunctionCall", name |-> n, args |-> a]

ArrayLiteral(es) == [kind |-> "ArrayLiteral", elements |-> es]

VariableDeclaration(t, n, v) ==
    [kind |-> "VariableDeclaration", var_type |-> t, name |-> n, value |-> v]

ArrayDeclaration(t, n, init) ==
    [kind |-> "ArrayDeclaration", elem_type |-> t, name |-> n,
     initializer |-> init]

ConstDeclaration(t, n, v) ==
    [kind |-> "ConstDeclaration", var_type |-> t, name |-> n, value |-> v]

FunctionDeclaration(n, ps, b) ==
    [kind |-> "FunctionDeclaration", name |-> n, params |-> ps, body |-> b]

LabelDeclaration(n) == [kind |-> "LabelDeclaration", name |-> n]

GotoStatement(l, c) == [kind |-> "GotoStatement", label |-> l, condition |-> c]

\* A statement list that may be absent (Optional[List[ASTNode]]).
Block(ss) == [kind |-> "Block", statements |-> ss]

IfStatement(c, t, e) ==
    [kind |-> "IfStatement", condition |-> c, then_body |-> t, else_body |-> e]

WhileStatement(c, b) == [kind |-> "WhileStatement", condition |-> c, body |-> b]

ForLoop(i, c, inc, b) ==
    [kind |-> "ForLoop", init |-> i, condition |-> c, increment |-> inc,
     body |-> b]

CaseStatement(v, ss) == [kind |-> "CaseStatement", value |-> v, statements |-> ss]

DefaultCase(ss) == [kind |-> "DefaultCase", statements |-> ss]

SwitchStatement(e, cs, d) ==
    [kind |-> "SwitchStatement", expression |-> e, cases |-> cs,
     default_case |-> d]

ReturnStatement == [kind |-> "ReturnStatement"]

ExpressionStatement(e) == [kind |-> "ExpressionStatement", expression |-> e]

\* the engine operations: the expression of an ExpressionStatement
KillStatement == [kind |-> "KillStatement"]

WaitStatement(time) ==
    [kind |-> "WaitStatement", time |-> time, result_var |-> ""]

WaitForStatement(c) == [kind |-> "WaitForStatement", condition |-> c]

ThreadStatement(l, a) == [kind |-> "ThreadStatement", label |-> l, args |-> a]

SetStatement(n, v) == [kind |-> "SetStatement", variable |-> n, value |-> v]

PushStatement(v) == [kind |-> "PushStatement", value |-> v]

PopStatement(n) == [kind |-> "PopStatement", variable |-> n]

PeekStatement(n) == [kind |-> "PeekStatement", variable |-> n]

SpawnBotCall(t, l, attrs) ==
    [kind |-> "SpawnBotCall", template |-> t, location |-> l,
     attributes |-> attrs]

MoveToCall(p, l) == [kind |-> "MoveToCall", prop |-> p, location |-> l]

AnimateCall(p, l, t) ==
    [kind |-> "AnimateCall", prop |-> p, location |-> l, time |-> t]

DeleteCall(p) == [kind |-> "DeleteCall", prop |-> p]

RawBlock(code) == [kind |-> "RawBlock", code |-> code]

ClassDeclaration(n, props, ms) ==
    [kind |-> "ClassDeclaration", name |-> n, properties |-> props,
     methods |-> ms]

StructDeclaration(n, props) ==
    [kind |-> "StructDeclaration", name |-> n, properties |-> props]

MethodDeclaration(n, ps, b) ==
    [kind |-> "MethodDeclaration", name |-> n, params |-> ps, body |-> b]

Program(ss) == [kind |-> "Program", statements |-> ss]

(***************************************************************************)
(* Expression rendering (CodeGenerator.expression_to_string).              *)
(***************************************************************************)
\* str() of a Python int
str(v) == ToString(v)

\* str(node.value) of a Literal: the text, the int, or the repr of the float
literal_str(node) ==
    CASE node.literal_type = "string" -> node.svalue
      [] node.literal_type = "float" -> str(node.value) \o "." \o node.svalue
      [] OTHER -> str(node.value)

RECURSIVE expression_to_string(_)
expression_to_string(node) ==
    CASE node.kind = "None" -> ""
      [] node.kind = "Literal" ->
            IF node.literal_type = "string"
            THEN "[" \o node.svalue \o "]"
            ELSE literal_str(node)
      [] node.kind = "Identifier" -> node.name
      [] node.kind = "ArrayAccess" ->
            IF node.array.kind = "Identifier"
            THEN CASE node.index.kind = "Literal" ->
                        node.array.name \o "_" \o literal_str(node.index)
                   [] node.index.kind = "Identifier" ->
                        "{$" \o node.array.name \o "_{" \o node.index.name \o "}}"
                   [] OTHER -> node.array.name \o "_0"
            ELSE "unknown_array"
      [] node.kind = "TernaryExpression" ->
            "(" \o expression_to_string(node.condition) \o " ? "
                \o expression_to_string(node.true_value) \o " : "
                \o expression_to_string(node.false_value) \o ")"
      [] node.kind = "MemberAccess" ->
            CASE node.object.kind = "Identifier" ->
                    node.object.name \o "_" \o node.member
              [] node.object.kind = "MemberAccess" ->
                    expression_to_string(node.object) \o "_" \o node.member
              [] OTHER -> "unknown_" \o node.member
      [] node.kind = "FunctionCall" -> "/* CALL " \o node.name \o " */"
      [] node.kind = "BinaryOp" ->
            "{" \o expression_to_string(node.left) \o " " \o node.operator
                \o " " \o expression_to_string(node.right) \o "}"
      [] node.kind = "UnaryOp" ->
            IF node.is_postfix
            THEN "{" \o expression_to_string(node.operand) \o node.operator \o "}"
            ELSE "{" \o node.operator \o expression_to_string(node.operand) \o "}"
      [] node.kind = "Assignment" ->
            node.target \o " = " \o expression_to_string(node.value)
      [] OTHER -> "<ValueError>"

\* expression_to_string raises ValueError on a node kind it has no branch for.
RECURSIVE expression_raises(_)
expression_raises(node) ==
    CASE node.kind \in {"None", "Literal", "Identifier", "FunctionCall",
                         "ArrayAccess"} -> FALSE
      [] node.kind = "TernaryExpression" ->
            \/ expression_raises(node.condition)
            \/ expression_raises(node.true_value)
            \/ expression_raises(node.false_value)
      [] node.kind = "MemberAccess" ->
            node.object.kind = "MemberAccess" /\ expression_raises(node.object)
      [] node.kind = "BinaryOp" ->
            expression_raises(node.left) \/ expression_raises(node.right)
      [] node.kind = "UnaryOp" -> expression_raises(node.operand)
      [] node.kind = "Assignment" -> expression_raises(node.value)
      [] OTHER -> TRUE

(***************************************************************************)
(* Emitted lines.  text is the line the generator appends to output; the   *)
(* other fields say how the target machine reads it (op, operand name a,   *)
(* expression e) and which AST node emitted it, in which role (at, role,   *)
(* k = position of an argument, parameter or case).                        *)
(***************************************************************************)
Line(text, op, a, e, role, k, at) ==
    [text |-> text, op |-> op, a |-> a, e |-> e, role |-> role, k |-> k,
     at |-> at]

\* Generator state threaded through the visitors.
NewState == [output |-> <<>>, label_counter |-> 0, labels |-> <<>>, err |-> ""]

\* self.output.append(line); nothing is appended once an exception is raised
Emit(st, line) ==
    IF st.err # "" THEN st ELSE [st EXCEPT !.output = Append(@, line)]

Raise(st, exc) == IF st.err # "" THEN st ELSE [st EXCEPT !.err = exc]

\* the two ValueErrors of the generator, by the start of their message
UnknownNodeType == "ValueError: Unknown node type"

CannotConvert == "ValueError: Cannot convert"

\* expression_to_string(node) evaluated for a line about to be emitted
Rendering(st, node) ==
    IF expression_raises(node) THEN Raise(st, CannotConvert) ELSE st

\* generate_label without the increment of the counter
generate_label_stale_counter(st, prefix) ==
    LET l == "_" \o prefix \o "_" \o str(st.label_counter)
    IN  [st |-> [st EXCEPT !.labels = Append(@, l)], label |-> l]

generate_label(st, prefix) ==
    LET n == st.label_counter + 1
        l == "_" \o prefix \o "_" \o str(n)
    IN  [st |-> [st EXCEPT !.label_counter = n, !.labels = Append(@, l)],
         label |-> l]

\* self.output.append for each line of a loop over a list
EmitAll(st, lines) ==
    IF st.err # "" THEN st ELSE [st EXCEPT !.output = @ \o lines]

Indices(s) == [i \in 1..Len(s) |-> i]

\* the argument or parameter list walked first to last
forward(s) == s

\* Python's reversed()
reversed(s) == [i \in 1..Len(s) |-> s[Len(s) + 1 - i]]

\* Python's truth value of an Optional node: None is false, a node is true
IsNode(n) == n.kind # "None"

\* No class of ast_nodes.py has '=' in str(type(node)),
\* "<class 'clearscript.ast_nodes.Assignment'>" included.
type_name_has_equals(node) == FALSE

RECURSIVE visit(_, _, _)
RECURSIVE visit_from(_, _, _, _)
RECURSIVE visit_function_declaration(_, _, _)
RECURSIVE visit_if_statement(_, _, _)
RECURSIVE visit_while_statement(_, _, _)
RECURSIVE visit_for_loop(_, _, _)
RECURSIVE visit_switch_statement(_, _, _)
RECURSIVE switch_cases(_, _, _, _, _, _)

\* for stmt in stmts: self.visit(stmt)   (from the i-th statement on)
visit_from(stmts, i, at, st) ==
    IF i > Len(stmts) \/ st.err # ""
    THEN st
    ELSE visit_from(stmts, i + 1, at, visit(stmts[i], at \o <<str(i)>>, st))

\* visit_init_declaration emitting the declaration as an instruction
init_declaration_as_set(node, at, st) ==
    IF IsNode(node.value)
    THEN Emit(Rendering(st, node.value),
              Line("SET " \o node.name \o " " \o expression_to_string(node.value),
                   "SET", node.name, node.value, "init", 0, at))
    ELSE Emit(st, Line("SET " \o node.name \o " 0",
                       "SET", node.name, Literal(0), "init", 0, at))

visit_init_declaration(node, at, st) ==
    IF IsNode(node.value)
    THEN Emit(Rendering(st, node.value),
              Line("INIT " \o node.name \o " " \o expression_to_string(node.value),
                   "INIT", node.name, node.value, "init", 0, at))
    ELSE Emit(st, Line("INIT " \o node.name \o " 0",
                       "INIT", node.name, Literal(0), "init", 0, at))

visit_variable_declaration(node, at, st) ==
    IF IsNode(node.value)
    THEN Emit(Rendering(st, node.value),
              Line("SET " \o node.name \o " " \o expression_to_string(node.value),
                   "SET", node.name, node.value, "stmt", 0, at))
    ELSE Emit(st, Line("SET " \o node.name \o " 0",
                       "SET", node.name, Literal(0), "stmt", 0, at))

visit_const_declaration(node, at, st) ==
    IF IsNode(node.value)
    THEN Emit(Rendering(st, node.value),
              Line("SET " \o node.name \o " " \o expression_to_string(node.value),
                   "SET", node.name, node.value, "stmt", 0, at))
    ELSE Emit(st, Line("SET " \o node.name \o " 0",
                       "SET", node.name, Literal(0), "stmt", 0, at))

\* visit_array_declaration numbering the slots from 1
array_slots_from_one(node, at, st) ==
    IF node.initializer.kind = "ArrayLiteral"
    THEN LET es == node.initializer.elements
             slots == [i \in 1..Len(es) |->
                         Line("SET " \o node.name \o "_" \o str(i) \o " "
                                  \o expression_to_string(es[i]),
                              "SET", node.name \o "_" \o str(i), es[i],
                              "stmt", i, at)]
             length == Line("SET " \o node.name \o "_length " \o str(Len(es)),
                            "SET", node.name \o "_length", Literal(Len(es)),
                            "stmt", 0, at)
         IN  Emit(EmitAll(st, slots), length)
    ELSE Emit(st, Line("SET " \o node.name \o "_length 0",
                       "SET", node.name \o "_length", Literal(0), "stmt", 0, at))

visit_array_declaration(node, at, st) ==
    IF node.initializer.kind = "ArrayLiteral"
    THEN LET es == node.initializer.elements
             raises == \E i \in 1..Len(es) : expression_raises(es[i])
             slots == [i \in 1..Len(es) |->
                         Line("SET " \o node.name \o "_" \o str(i - 1) \o " "
                                  \o expression_to_string(es[i]),
                              "SET", node.name \o "_" \o str(i - 1), es[i],
                              "stmt", i, at)]
             length == Line("SET " \o node.name \o "_length " \o str(Len(es)),
                            "SET", node.name \o "_length", Literal(Len(es)),
                            "stmt", 0, at)
         IN  IF raises THEN Raise(st, CannotConvert)
             ELSE Emit(EmitAll(st, slots), length)
    ELSE Emit(st, Line("SET " \o node.name \o "_length 0",
                       "SET", node.name \o "_length", Literal(0), "stmt", 0, at))

visit_assignment(node, at, st) ==
    Emit(Rendering(st, node.value),
         Line("SET " \o node.target \o " " \o expression_to_string(node.value),
              "SET", node.target, node.value, "stmt", 0, at))

visit_label_declaration(node, at, st) ==
    Emit(st, Line(":" \o node.name, "LABEL", node.name, None, "user_label", 0, at))

visit_goto_statement(node, at, st) ==
    IF IsNode(node.condition)
    THEN Emit(Rendering(st, node.condition),
              Line("GOTO " \o node.label \o " {"
                       \o expression_to_string(node.condition) \o "}",
                   "GOTO", node.label, node.condition, "stmt", 0, at))
    ELSE Emit(st, Line("GOTO " \o node.label, "GOTO", node.label, None,
                       "stmt", 0, at))

visit_return_statement(node, at, st) ==
    Emit(st, Line("RETURN", "RETURN", "", None, "stmt", 0, at))

\* visit_function_declaration popping the parameters in declared order
function_pops_declared_order(node, at, st) ==
    LET ps == node.params
        pops == [j \in 1..Len(ps) |->
                    Line("POP " \o ps[j], "POP", ps[j], None, "pop_param", j, at)]
        s0 == Emit(st, Line(":" \o node.name, "LABEL", node.name, None,
                            "func_label", 0, at))
        s2 == visit_from(node.body, 1, at \o <<"body">>, EmitAll(s0, pops))
    IN  IF node.body = <<>> \/ node.body[Len(node.body)].kind # "ReturnStatement"
        THEN Emit(s2, Line("RETURN", "RETURN", "", None, "func_ret", 0, at))
        ELSE s2

\* visit_function_declaration appending RETURN after every body
function_always_appends_return(node, at, st) ==
    LET ps == node.params
        order == reversed(Indices(ps))
        pops == [j \in 1..Len(ps) |->
                    Line("POP " \o ps[order[j]], "POP", ps[order[j]], None,
                         "pop_param", order[j], at)]
        s0 == Emit(st, Line(":" \o node.name, "LABEL", node.name, None,
                            "func_label", 0, at))
        s2 == visit_from(node.body, 1, at \o <<"body">>, EmitAll(s0, pops))
    IN  Emit(s2, Line("RETURN", "RETURN", "", None, "func_ret", 0, at))

visit_function_declaration(node, at, st) ==
    LET ps == node.params
        order == reversed(Indices(ps))
        pops == [j \in 1..Len(ps) |->
                    Line("POP " \o ps[order[j]], "POP", ps[order[j]], None,
                         "pop_param", order[j], at)]
        s0 == Emit(st, Line(":" \o node.name, "LABEL", node.name, None,
                            "func_label", 0, at))
        s1 == EmitAll(s0, pops)
        s2 == visit_from(node.body, 1, at \o <<"body">>, s1)
    IN  IF node.body = <<>> \/ node.body[Len(node.body)].kind # "ReturnStatement"
        THEN Emit(s2, Line("RETURN", "RETURN", "", None, "func_ret", 0, at))
        ELSE s2

\* if node.else_body: an absent or an empty else list is false
has_else(node) ==
    node.else_body.kind = "Block" /\ node.else_body.statements # <<>>

visit_if_statement(node, at, st) ==
    LET g1 == generate_label(st, "if_then")
        g2 == generate_label(g1.st, "if_end")
        then_label == g1.label
        end_label == g2.label
        cond_str == expression_to_string(node.condition)
        callif == Line("CALLIF " \o then_label \o " {" \o cond_str \o "}",
                       "CALLIF", then_label, node.condition, "if_callif", 0, at)
        gotoend == Line("GOTO " \o end_label, "GOTO", end_label, None,
                        "if_gotoend", 0, at)
        thenl == Line(":" \o then_label, "LABEL", then_label, None,
                      "if_then", 0, at)
        endl == Line(":" \o end_label, "LABEL", end_label, None, "if_end", 0, at)
        ret(role) == Line("RETURN", "RETURN", "", None, role, 0, at)
        c0 == Rendering(g2.st, node.condition)
    IN  IF has_else(node)
        THEN LET g3 == generate_label(c0, "if_else")
                 else_label == g3.label
                 callelse == Line("CALL " \o else_label, "CALL", else_label,
                                  None, "if_callelse", 0, at)
                 elsel == Line(":" \o else_label, "LABEL", else_label, None,
                               "if_else", 0, at)
                 s1 == EmitAll(g3.st, <<callif, callelse, gotoend, thenl>>)
                 s2 == visit_from(node.then_body, 1, at \o <<"then">>, s1)
                 s3 == EmitAll(s2, <<ret("if_thenret"), elsel>>)
                 s4 == visit_from(node.else_body.statements, 1,
                                  at \o <<"else">>, s3)
             IN  EmitAll(s4, <<ret("if_elseret"), endl>>)
        ELSE LET s1 == EmitAll(c0, <<callif, gotoend, thenl>>)
                 s2 == visit_from(node.then_body, 1, at \o <<"then">>, s1)
             IN  EmitAll(s2, <<ret("if_thenret"), endl>>)

\* visit_while_statement with the guard jump taken when the condition holds
while_guard_not_negated(node, at, st) ==
    LET g1 == generate_label(st, "while")
        g2 == generate_label(g1.st, "while_end")
        s1 == EmitAll(Rendering(g2.st, node.condition),
                <<Line(":" \o g1.label, "LABEL", g1.label, None,
                       "loop_label", 0, at),
                  Line("GOTO " \o g2.label \o " {"
                           \o expression_to_string(node.condition) \o "}",
                       "GOTO", g2.label, node.condition, "loop_guard", 0, at)>>)
        s2 == visit_from(node.body, 1, at \o <<"body">>, s1)
    IN  EmitAll(s2,
                <<Line("GOTO " \o g1.label, "GOTO", g1.label, None,
                       "loop_back", 0, at),
                  Line(":" \o g2.label, "LABEL", g2.label, None,
                       "loop_end", 0, at)>>)

visit_while_statement(node, at, st) ==
    LET g1 == generate_label(st, "while")
        g2 == generate_label(g1.st, "while_end")
        loop_label == g1.label
        end_label == g2.label
        cond_str == expression_to_string(node.condition)
        s1 == EmitAll(Rendering(g2.st, node.condition),
                <<Line(":" \o loop_label, "LABEL", loop_label, None,
                       "loop_label", 0, at),
                  Line("GOTO " \o end_label \o " {!(" \o cond_str \o ")}",
                       "GOTO", end_label, UnaryOp("!", node.condition, FALSE),
                       "loop_guard", 0, at)>>)
        s2 == visit_from(node.body, 1, at \o <<"body">>, s1)
    IN  EmitAll(s2,
                <<Line("GOTO " \o loop_label, "GOTO", loop_label, None,
                       "loop_back", 0, at),
                  Line(":" \o end_label, "LABEL", end_label, None,
                       "loop_end", 0, at)>>)

visit_for_loop(node, at, st) ==
    LET init_line == Line(expression_to_string(node.init), "EXPR", "", node.init,
                          "for_init", 0, at)
        s0 == IF IsNode(node.init)
              THEN IF node.init.kind = "VariableDeclaration"
                   THEN visit_variable_declaration(node.init, at \o <<"init">>, st)
                   ELSE Emit(Rendering(st, node.init), init_line)
              ELSE st
        g1 == generate_label(s0, "for")
        g2 == generate_label(g1.st, "for_end")
        loop_label == g1.label
        end_label == g2.label
        s1 == Emit(g2.st, Line(":" \o loop_label, "LABEL", loop_label, None,
                               "loop_label", 0, at))
        s2 == IF IsNode(node.condition)
              THEN Emit(Rendering(s1, node.condition),
                        Line("GOTO " \o end_label \o " {!("
                                 \o expression_to_string(node.condition) \o ")}",
                             "GOTO", end_label,
                             UnaryOp("!", node.condition, FALSE),
                             "loop_guard", 0, at))
              ELSE s1
        s3 == visit_from(node.body, 1, at \o <<"body">>, s2)
        inc == node.increment
        s4 == IF IsNode(inc)
              THEN IF inc.kind = "UnaryOp" /\ inc.operator \in {"++", "--"}
                   THEN LET operand_str == expression_to_string(inc.operand)
                        IN  IF inc.operator = "++"
                            THEN Emit(Rendering(s3, inc.operand),
                                      Line("INC " \o operand_str, "INC",
                                           operand_str, None, "for_inc", 0, at))
                            ELSE Emit(Rendering(s3, inc.operand),
                                      Line("DEC " \o operand_str, "DEC",
                                           operand_str, None, "for_inc", 0, at))
                   ELSE IF type_name_has_equals(inc)
                        THEN Emit(Rendering(s3, inc),
                                  Line(expression_to_string(inc), "EXPR", "",
                                       inc, "for_inc", 0, at))
                        ELSE Rendering(s3, inc)
              ELSE s3
    IN  EmitAll(s4,
                <<Line("GOTO " \o loop_label, "GOTO", loop_label, None,
                       "loop_back", 0, at),
                  Line(":" \o end_label, "LABEL", end_label, None,
                       "loop_end", 0, at)>>)

\* the body of "for i, case in enumerate(node.cases)", from the i-th case on;
\* the loop over node.default_case.statements is inside it
switch_cases(node, i, expr_str, end_label, at, st) ==
    IF i > Len(node.cases) \/ st.err # ""
    THEN st
    ELSE LET case == node.cases[i]
             g1 == generate_label(st, "case")
             g2 == generate_label(g1.st, "case_check")
             case_label == g1.label
             next_label == g2.label
             case_value_str == expression_to_string(case.value)
             s1 == EmitAll(Rendering(g2.st, case.value),
                     <<Line("CALLIF " \o case_label \o " {" \o expr_str \o " == "
                                \o case_value_str \o "}",
                            "CALLIF", case_label,
                            BinaryOp(node.expression, "==", case.value),
                            "case_check", i, at),
                       Line("GOTO " \o next_label, "GOTO", next_label, None,
                            "case_skip", i, at),
                       Line(":" \o case_label, "LABEL", case_label, None,
                            "case_label", i, at)>>)
             s2 == visit_from(case.statements, 1, at \o <<"case", str(i)>>, s1)
             s3 == EmitAll(s2,
                     <<Line("GOTO " \o end_label, "GOTO", end_label, None,
                            "case_end", i, at),
                       Line(":" \o next_label, "LABEL", next_label, None,
                            "case_next", i, at)>>)
             s4 == IF IsNode(node.default_case)
                   THEN visit_from(node.default_case.statements, 1,
                                   at \o <<"default">>, s3)
                   ELSE Raise(s3, "AttributeError")
         IN  switch_cases(node, i + 1, expr_str, end_label, at, s4)

visit_switch_statement(node, at, st) ==
    LET expr_str == expression_to_string(node.expression)
        g == generate_label(Rendering(st, node.expression), "switch_end")
        end_label == g.label
        s1 == switch_cases(node, 1, expr_str, end_label, at, g.st)
    IN  Emit(s1, Line(":" \o end_label, "LABEL", end_label, None,
                      "switch_end", 0, at))

\* " ".join(texts)
RECURSIVE join_spaced(_)
join_spaced(texts) ==
    IF texts = <<>> THEN ""
    ELSE IF Len(texts) = 1 THEN texts[1]
    ELSE texts[1] \o " " \o join_spaced(Tail(texts))

\* expression_to_string over a list: the texts, and whether one raises
strings_of(es) == [i \in 1..Len(es) |-> expression_to_string(es[i])]

RenderingAll(st, es) ==
    IF \E i \in 1..Len(es) : expression_raises(es[i])
    THEN Raise(st, CannotConvert) ELSE st

\* an engine operation: one line, the operation name and its operand texts
engine_line(name, texts, expr, at) ==
    Line(IF texts = <<>> THEN name ELSE name \o " " \o join_spaced(texts),
         name, "", expr, "stmt", 0, at)

visit_expression_statement(node, at, st) ==
    LET expr == node.expression
    IN  CASE expr.kind = "KillStatement" ->
               Emit(st, engine_line("KILL", <<>>, expr, at))
          [] expr.kind = "WaitStatement" ->
               Emit(Rendering(st, expr.time),
                    engine_line("WAIT",
                        IF expr.result_var # ""
                        THEN <<expression_to_string(expr.time), expr.result_var>>
                        ELSE <<expression_to_string(expr.time)>>, expr, at))
          [] expr.kind = "WaitForStatement" ->
               Emit(Rendering(st, expr.condition),
                    engine_line("WAITFOR",
                        <<"{" \o expression_to_string(expr.condition) \o "}">>,
                        expr, at))
          [] expr.kind = "ThreadStatement" ->
               Emit(RenderingAll(st, expr.args),
                    IF join_spaced(strings_of(expr.args)) # ""
                    THEN engine_line("THREAD",
                             <<expr.label, join_spaced(strings_of(expr.args))>>,
                             expr, at)
                    ELSE engine_line("THREAD", <<expr.label>>, expr, at))
          [] expr.kind = "SetStatement" ->
               Emit(Rendering(st, expr.value),
                    Line("SET " \o expr.variable \o " "
                             \o expression_to_string(expr.value),
                         "SET", expr.variable, expr.value, "stmt", 0, at))
          [] expr.kind = "PushStatement" ->
               Emit(Rendering(st, expr.value),
                    Line("PUSH " \o expression_to_string(expr.value),
                         "PUSH", "", expr.value, "stmt", 0, at))
          [] expr.kind = "PopStatement" ->
               Emit(st, Line("POP " \o expr.variable, "POP", expr.variable, None,
                             "stmt", 0, at))
          [] expr.kind = "PeekStatement" ->
               Emit(st, engine_line("PEEK", <<expr.variable>>, expr, at))
          [] expr.kind = "SpawnBotCall" ->
               Emit(RenderingAll(Rendering(Rendering(st, expr.template),
                                           expr.location), expr.attributes),
                    IF join_spaced(strings_of(expr.attributes)) # ""
                    THEN engine_line("SPAWNBOT",
                             <<expression_to_string(expr.template),
                               expression_to_string(expr.location),
                               join_spaced(strings_of(expr.attributes))>>,
                             expr, at)
                    ELSE engine_line("SPAWNBOT",
                             <<expression_to_string(expr.template),
                               expression_to_string(expr.location)>>, expr, at))
          [] expr.kind = "MoveToCall" ->
               Emit(Rendering(Rendering(st, expr.prop), expr.location),
                    engine_line("MOVETO",
                        <<expression_to_string(expr.prop),
                          expression_to_string(expr.location)>>, expr, at))
          [] expr.kind = "AnimateCall" ->
               Emit(Rendering(Rendering(Rendering(st, expr.prop), expr.location),
                              expr.time),
                    engine_line("ANIMATE",
                        <<expression_to_string(expr.prop),
                          expression_to_string(expr.location),
                          expression_to_string(expr.time)>>, expr, at))
          [] expr.kind = "DeleteCall" ->
               Emit(Rendering(st, expr.prop),
                    engine_line("DELETE", <<expression_to_string(expr.prop)>>,
                                expr, at))
          [] expr.kind = "UnaryOp" ->
               IF expr.operator \in {"++", "--"}
               THEN LET operand_str == expression_to_string(expr.operand)
                    IN  IF expr.operator = "++"
                        THEN Emit(Rendering(st, expr.operand),
                                  Line("INC " \o operand_str, "INC", operand_str,
                                       None, "stmt", 0, at))
                        ELSE Emit(Rendering(st, expr.operand),
                                  Line("DEC " \o operand_str, "DEC", operand_str,
                                       None, "stmt", 0, at))
               ELSE Emit(Rendering(st, expr),
                         Line(expression_to_string(expr), "EXPR", "", expr,
                              "stmt", 0, at))
          [] expr.kind = "Assignment" ->
               Emit(Rendering(st, expr.value),
                    Line("SET " \o expr.target \o " "
                             \o expression_to_string(expr.value),
                         "SET", expr.target, expr.value, "stmt", 0, at))
          [] expr.kind = "FunctionCall" ->
               LET as == expr.args
                   order == reversed(Indices(as))
                   raises == \E i \in 1..Len(as) : expression_raises(as[i])
                   pushes == [j \in 1..Len(as) |->
                                Line("PUSH " \o expression_to_string(as[order[j]]),
                                     "PUSH", "", as[order[j]], "push_arg",
                                     order[j], at)]
               IN  IF raises THEN Raise(st, CannotConvert)
                   ELSE Emit(EmitAll(st, pushes),
                             Line("CALL " \o expr.name, "CALL", expr.name, None,
                                  "call", Len(as), at))
          [] OTHER ->
               Emit(Rendering(st, expr),
                    Line(expression_to_string(expr), "EXPR", "", expr,
                         "stmt", 0, at))

\* a class or a struct is a template: nothing is emitted
visit_class_declaration(node, at, st) == st

visit_struct_declaration(node, at, st) == st

\* the code of a raw block as one element of output, when it is not empty
visit_raw_block(node, at, st) ==
    IF node.code # ""
    THEN Emit(st, Line(node.code, "RAW", "", None, "raw", 0, at))
    ELSE st

visit(node, at, st) ==
    IF st.err # "" THEN st
    ELSE CASE node.kind = "VariableDeclaration" ->
                visit_variable_declaration(node, at, st)
           [] node.kind = "ArrayDeclaration" -> visit_array_declaration(node, at, st)
           [] node.kind = "Assignment" -> visit_assignment(node, at, st)
           [] node.kind = "FunctionDeclaration" ->
                visit_function_declaration(node, at, st)
           [] node.kind = "LabelDeclaration" -> visit_label_declaration(node, at, st)
           [] node.kind = "GotoStatement" -> visit_goto_statement(node, at, st)
           [] node.kind = "IfStatement" -> visit_if_statement(node, at, st)
           [] node.kind = "WhileStatement" -> visit_while_statement(node, at, st)
           [] node.kind = "ForLoop" -> visit_for_loop(node, at, st)
           [] node.kind = "SwitchStatement" -> visit_switch_statement(node, at, st)
           [] node.kind = "ConstDeclaration" -> visit_const_declaration(node, at, st)
           [] node.kind = "ReturnStatement" -> visit_return_statement(node, at, st)
           [] node.kind = "ExpressionStatement" ->
                visit_expression_statement(node, at, st)
           [] node.kind = "ClassDeclaration" -> visit_class_declaration(node, at, st)
           [] node.kind = "StructDeclaration" ->
                visit_struct_declaration(node, at, st)
           [] node.kind = "RawBlock" -> visit_raw_block(node, at, st)
           [] OTHER -> Raise(st, UnknownNodeType)

(***************************************************************************)
(* CodeGenerator.generate                                                  *)
(***************************************************************************)
Blank(role) == Line("", "BLANK", "", None, role, 0, <<>>)

\* for init in self.init_statements: self.visit_init_declaration(init)
RECURSIVE emit_inits(_, _, _, _)
emit_inits(stmts, order, j, st) ==
    IF j > Len(order) THEN st
    ELSE emit_inits(stmts, order, j + 1,
            visit_init_declaration(stmts[order[j]], <<"top", str(order[j])>>, st))

\* for func in functions: self.visit_function_declaration(func); append("")
RECURSIVE emit_functions(_, _, _, _)
emit_functions(stmts, order, j, st) ==
    IF j > Len(order) THEN st
    ELSE emit_functions(stmts, order, j + 1,
            Emit(visit_function_declaration(stmts[order[j]],
                                            <<"top", str(order[j])>>, st),
                 Blank("blank")))

\* for stmt in main_statements: self.visit(stmt)
RECURSIVE emit_main(_, _, _, _)
emit_main(stmts, order, j, st) ==
    IF j > Len(order) THEN st
    ELSE emit_main(stmts, order, j + 1,
            visit(stmts[order[j]], <<"top", str(order[j])>>, st))

\* The first pass of generate(): the indexes of the top-level statements
\* collected as functions, as init_statements and as main_statements.
functions_of(stmts) ==
    SelectSeq(Indices(stmts), LAMBDA i : stmts[i].kind = "FunctionDeclaration")

init_statements_of(stmts) ==
    SelectSeq(Indices(stmts), LAMBDA i : stmts[i].kind = "VariableDeclaration")

main_statements_of(stmts) ==
    SelectSeq(Indices(stmts),
              LAMBDA i : stmts[i].kind \notin {"FunctionDeclaration",
                                               "VariableDeclaration"})

generate(program) ==
    LET stmts == program.statements
        functions == functions_of(stmts)
        init_statements == init_statements_of(stmts)
        main_statements == main_statements_of(stmts)
        s1 == emit_inits(stmts, init_statements, 1, NewState)
        s2 == IF init_statements # <<>> /\ (main_statements # <<>> \/ functions # <<>>)
              THEN Emit(s1, Blank("blank"))
              ELSE s1
        s3 == IF main_statements # <<>>
              THEN EmitAll(s2, <<Line("GOTO _main", "GOTO", "_main", None,
                                      "goto_main", 0, <<>>),
                                 Blank("blank")>>)
              ELSE s2
        s4 == emit_functions(stmts, functions, 1, s3)
    IN  IF main_statements # <<>>
        THEN emit_main(stmts, main_statements, 1,
                       Emit(s4, Line(":_main", "LABEL", "_main", None,
                                     "main_label", 0, <<>>)))
        ELSE s4

(***************************************************************************)
(* The target machine: how one emitted line executes.                      *)
(***************************************************************************)
Lookup(en, n) == IF n \in DOMAIN en THEN en[n] ELSE 0

Bool(b) == IF b THEN 1 ELSE 0

\* the value of a rendered expression in the flat state en
RECURSIVE Eval(_, _)
Eval(e, en) ==
    CASE e.kind = "Literal" -> e.value
      [] e.kind = "Identifier" -> Lookup(en, e.name)
      [] e.kind = "ArrayAccess" ->
            \* a constant index is rendered as the name of a slot
            IF e.array.kind = "Identifier" /\ e.index.kind = "Literal"
            THEN Lookup(en, expression_to_string(e))
            ELSE 0
      [] e.kind = "UnaryOp" ->
            LET v == Eval(e.operand, en)
            IN  CASE e.operator = "!" -> Bool(v = 0)
                  [] e.operator = "-" -> 0 - v
                  [] OTHER -> v
      [] e.kind = "BinaryOp" ->
            LET l == Eval(e.left, en)
                r == Eval(e.right, en)
            IN  CASE e.operator = "+" -> l + r
                  [] e.operator = "-" -> l - r
                  [] e.operator = "*" -> l * r
                  [] e.operator = "==" -> Bool(l = r)
                  [] e.operator = "!=" -> Bool(l # r)
                  [] e.operator = "<" -> Bool(l < r)
                  [] e.operator = ">" -> Bool(l > r)
                  [] e.operator = "<=" -> Bool(l <= r)
                  [] e.operator = ">=" -> Bool(l >= r)
                  [] e.operator = "&&" -> Bool(l # 0 /\ r # 0)
                  [] e.operator = "||" -> Bool(l # 0 \/ r # 0)
                  [] OTHER -> 0
      [] OTHER -> 0

\* a guard holds when there is none or when it evaluates to non-zero
Holds(e, en) == e.kind = "None" \/ Eval(e, en) # 0

\* the label lines a jump to name l can land on
Targets(l) ==
    {i \in 1..Len(output) : output[i].op = "LABEL" /\ output[i].a = l}

Running == phase = "running" /\ pc <= Len(output) /\ Len(trace) < MaxSteps

Cur == output[pc]

Step(v) == trace' = Append(trace, [ln |-> pc, v |-> v])

GenVars == <<source, tokens, failure, ast, output, label_counter, labels, error>>

Store(n, v) == env' = (n :> v) @@ env

\* generate(): the whole lowering; an exception leaves no output text
Generate ==
    /\ phase = "parsed"
    /\ \E st \in {generate(ast)} :
           /\ output' = st.output
           /\ label_counter' = st.label_counter
           /\ labels' = st.labels
           /\ error' = st.err
           /\ phase' = IF st.err = "" THEN "generated" ELSE "failed"
    /\ UNCHANGED <<source, tokens, failure, ast, pc, rstack, ostack, env, trace>>
    /\ UNCHANGED CliVars

\* the machine starts at the first line of the output
Start ==
    /\ phase = "generated"
    /\ phase' = "running"
    /\ pc' = 1
    /\ UNCHANGED <<GenVars, rstack, ostack, env, trace>>
    /\ UNCHANGED CliVars

ExecInit ==
    /\ Running /\ Cur.op = "INIT"
    /\ Store(Cur.a, Eval(Cur.e, env))
    /\ Step(Eval(Cur.e, env))
    /\ pc' = pc + 1
    /\ UNCHANGED <<GenVars, phase, rstack, ostack>>
    /\ UNCHANGED CliVars

ExecSet ==
    /\ Running /\ Cur.op = "SET"
    /\ Store(Cur.a, Eval(Cur.e, env))
    /\ Step(Eval(Cur.e, env))
    /\ pc' = pc + 1
    /\ UNCHANGED <<GenVars, phase, rstack, ostack>>
    /\ UNCHANGED CliVars

ExecInc ==
    /\ Running /\ Cur.op = "INC"
    /\ Lookup(env, Cur.a) < MaxVal
    /\ Store(Cur.a, Lookup(env, Cur.a) + 1)
    /\ Step(Lookup(env, Cur.a) + 1)
    /\ pc' = pc + 1
    /\ UNCHANGED <<GenVars, phase, rstack, ostack>>
    /\ UNCHANGED CliVars

ExecDec ==
    /\ Running /\ Cur.op = "DEC"
    /\ Lookup(env, Cur.a) > 0 - MaxVal
    /\ Store(Cur.a, Lookup(env, Cur.a) - 1)
    /\ Step(Lookup(env, Cur.a) - 1)
    /\ pc' = pc + 1
    /\ UNCHANGED <<GenVars, phase, rstack, ostack>>
    /\ UNCHANGED CliVars

\* GOTO label [{guard}]: jump when the guard holds, else fall to the next line
ExecGoto ==
    /\ Running /\ Cur.op = "GOTO"
    /\ Step(Bool(Holds(Cur.e, env)))
    /\ IF Holds(Cur.e, env)
       THEN IF Targets(Cur.a) = {}
            THEN phase' = "halted" /\ pc' = pc
            ELSE phase' = phase /\ pc' \in Targets(Cur.a)
       ELSE phase' = phase /\ pc' = pc + 1
    /\ UNCHANGED <<GenVars, rstack, ostack, env>>
    /\ UNCHANGED CliVars

\* CALLIF label {guard}: call when the guard holds
ExecCallIf ==
    /\ Running /\ Cur.op = "CALLIF"
    /\ Step(Bool(Holds(Cur.e, env)))
    /\ IF Holds(Cur.e, env)
       THEN IF Targets(Cur.a) = {}
            THEN phase' = "halted" /\ pc' = pc /\ rstack' = rstack
            ELSE /\ phase' = phase
                 /\ pc' \in Targets(Cur.a)
                 /\ rstack' = Append(rstack, pc + 1)
       ELSE phase' = phase /\ pc' = pc + 1 /\ rstack' = rstack
    /\ UNCHANGED <<GenVars, ostack, env>>
    /\ UNCHANGED CliVars

\* CALL label: push the return address and jump
ExecCall ==
    /\ Running /\ Cur.op = "CALL"
    /\ Step(1)
    /\ IF Targets(Cur.a) = {}
       THEN phase' = "halted" /\ pc' = pc /\ rstack' = rstack
       ELSE /\ phase' = phase
            /\ pc' \in Targets(Cur.a)
            /\ rstack' = Append(rstack, pc + 1)
    /\ UNCHANGED <<GenVars, ostack, env>>
    /\ UNCHANGED CliVars

\* RETURN: back to the latest return address; with none the thread ends
ExecReturn ==
    /\ Running /\ Cur.op = "RETURN"
    /\ Step(Len(rstack))
    /\ IF rstack = <<>>
       THEN phase' = "halted" /\ pc' = pc /\ rstack' = rstack
       ELSE /\ phase' = phase
            /\ pc' = rstack[Len(rstack)]
            /\ rstack' = SubSeq(rstack, 1, Len(rstack) - 1)
    /\ UNCHANGED <<GenVars, ostack, env>>
    /\ UNCHANGED CliVars

ExecPush ==
    /\ Running /\ Cur.op = "PUSH"
    /\ ostack' = Append(ostack, Eval(Cur.e, env))
    /\ Step(Eval(Cur.e, env))
    /\ pc' = pc + 1
    /\ UNCHANGED <<GenVars, phase, rstack, env>>
    /\ UNCHANGED CliVars

\* POP name: the top of the operand stack; on an empty stack the thread ends
ExecPop ==
    /\ Running /\ Cur.op = "POP"
    /\ IF ostack = <<>>
       THEN /\ phase' = "halted" /\ pc' = pc
            /\ Step(0)
            /\ UNCHANGED <<ostack, env>>
       ELSE /\ phase' = phase /\ pc' = pc + 1
            /\ Step(ostack[Len(ostack)])
            /\ Store(Cur.a, ostack[Len(ostack)])
            /\ ostack' = SubSeq(ostack, 1, Len(ostack) - 1)
    /\ UNCHANGED <<GenVars, rstack>>
    /\ UNCHANGED CliVars

ExecLabel ==
    /\ Running /\ Cur.op = "LABEL"
    /\ Step(0)
    /\ pc' = pc + 1
    /\ UNCHANGED <<GenVars, phase, rstack, ostack, env>>
    /\ UNCHANGED CliVars

ExecBlank ==
    /\ Running /\ Cur.op = "BLANK"
    /\ Step(0)
    /\ pc' = pc + 1
    /\ UNCHANGED <<GenVars, phase, rstack, ostack, env>>
    /\ UNCHANGED CliVars

\* a line that is no instruction of the target: skipped, or the thread ends
ExecExpr ==
    /\ Running /\ Cur.op = "EXPR"
    /\ Step(0)
    /\ \/ phase' = phase /\ pc' = pc + 1
       \/ phase' = "halted" /\ pc' = pc
    /\ UNCHANGED <<GenVars, rstack, ostack, env>>
    /\ UNCHANGED CliVars

\* control runs off the last line
Finish ==
    /\ phase = "running" /\ pc > Len(output)
    /\ phase' = "halted"
    /\ UNCHANGED <<GenVars, pc, rstack, ostack, env, trace>>
    /\ UNCHANGED CliVars

(***************************************************************************)
(* The programs handed to the generator: ASTs as Parser.parse builds them. *)
(***************************************************************************)
X == Identifier("x")
I == Identifier("i")

\* a = 1;  b = 1;  x = 2;  x++;  y--;  return;
SetA == ExpressionStatement(Assignment("a", Literal(1)))
SetB == ExpressionStatement(Assignment("b", Literal(1)))
SetX == ExpressionStatement(Assignment("x", Literal(2)))
IncX == ExpressionStatement(UnaryOp("++", X, TRUE))
DecY == ExpressionStatement(UnaryOp("--", Identifier("y"), TRUE))

Leafs == {SetA, SetX, IncX, DecY, ReturnStatement}

\* x < 1   and   x == 1
Conds == {BinaryOp(X, "<", Literal(1)), BinaryOp(X, "==", Literal(1))}

Bodies == {<<>>, <<SetA>>, <<SetX>>, <<IncX>>, <<ReturnStatement>>,
           <<SetX, ReturnStatement>>}

ElseBodies == {None, Block(<<>>), Block(<<SetB>>), Block(<<SetB, ReturnStatement>>)}

IfFam == {IfStatement(c, t, e) : c \in Conds, t \in Bodies, e \in ElseBodies}

WhileFam == {WhileStatement(c, b) : c \in Conds, b \in Bodies}

\* for (init; condition; increment) { body }
ForInits == {None, VariableDeclaration("int", "i", Literal(0)),
             Assignment("i", Literal(0))}

ForConds == {None, BinaryOp(I, "<", Literal(2)), BinaryOp(X, "<", Literal(1))}

ForIncs == {None, UnaryOp("++", I, TRUE), UnaryOp("++", I, FALSE),
            UnaryOp("--", I, TRUE), Assignment("i", BinaryOp(I, "+", Literal(1))),
            BinaryOp(I, "+", Literal(1))}

ForFam ==
    {ForLoop(i, c, n, b) : i \in ForInits, c \in ForConds, n \in ForIncs,
                           b \in {<<>>, <<SetA>>}}

\* switch (x) { case 1: ... case 2: ... default: ... }
CaseBodies == {<<SetA>>, <<SetX>>, <<ReturnStatement>>}

CaseLists ==
    UNION {{[i \in 1..n |-> CaseStatement(Literal(i), b[i])] :
               b \in [1..n -> CaseBodies]} : n \in 0..MaxCases}

Defaults == {None, DefaultCase(<<>>), DefaultCase(<<SetB>>)}

SwitchFam == {SwitchStatement(X, cs, d) : cs \in CaseLists, d \in Defaults}

\* constructs nested in constructs, of the same kind and of another
Inner ==
    {IfStatement(BinaryOp(X, "<", Literal(1)), <<SetA>>, None),
     IfStatement(BinaryOp(X, "==", Literal(1)), <<SetA>>, Block(<<SetB>>)),
     WhileStatement(BinaryOp(X, "<", Literal(1)), <<IncX>>),
     ForLoop(VariableDeclaration("int", "i", Literal(0)),
             BinaryOp(I, "<", Literal(2)), UnaryOp("++", I, TRUE), <<>>),
     SwitchStatement(X, <<CaseStatement(Literal(1), <<SetX>>),
                          CaseStatement(Literal(2), <<SetA>>)>>,
                     DefaultCase(<<SetB>>))}

Nested ==
    {IfStatement(c, <<s>>, None) : c \in Conds, s \in Inner}
    \cup {IfStatement(c, <<SetA>>, Block(<<s>>)) : c \in Conds, s \in Inner}
    \cup {WhileStatement(c, <<s, IncX>>) : c \in Conds, s \in Inner}
    \cup {SwitchStatement(X, <<CaseStatement(Literal(1), <<s>>)>>,
                          DefaultCase(<<SetB>>)) : s \in Inner}

\* f(...) with up to MaxParams arguments
ParamNames == <<"a", "b", "c", "d">>

ParamLists == {SubSeq(ParamNames, 1, n) : n \in 0..MaxParams}

Args == {Literal(1), Literal(2), X}

ArgLists == UNION {[1..n -> Args] : n \in 0..MaxParams}

Calls == {ExpressionStatement(FunctionCall("f", as)) : as \in ArgLists}

CallF == ExpressionStatement(FunctionCall("f", <<>>))

\* test("hello");  and calls mixing a text with a name
StringCalls ==
    {ExpressionStatement(FunctionCall("test", as)) :
        as \in {<<StringLiteral("hello")>>, <<StringLiteral("a"), X>>,
                <<X, StringLiteral("a")>>}}

\* declarations
VarDecls ==
    {VariableDeclaration("int", "x", v) :
        v \in {None, Literal(1), Literal(5), BinaryOp(Literal(5), "+", Literal(3))}}

ArrayDecls ==
    {ArrayDeclaration("int", "arr", None),
     ArrayDeclaration("int", "arr", ArrayLiteral(<<Literal(1), Literal(2)>>))}

\* int[] arr = [];  int[] arr = [2, x, 1];
MoreArrayDecls ==
    {ArrayDeclaration("int", "arr", ArrayLiteral(<<>>)),
     ArrayDeclaration("int", "arr", ArrayLiteral(<<Literal(2), X, Literal(1)>>))}

Arr == Identifier("arr")

\* arr[0] .. arr[3];  arr[i];  arr[i + 1];  arr[-x];  f()[1]
ConstantIndexed == {ArrayAccess(Arr, Literal(k)) : k \in 0..(MaxVal + 1)}

VariableIndexed ==
    {ArrayAccess(Arr, I), ArrayAccess(Arr, BinaryOp(I, "+", Literal(1))),
     ArrayAccess(Arr, UnaryOp("-", X, FALSE))}

\* x = arr[..];  x = {arr[..] + 1};  f(arr[..]);
ArrayReads ==
    UNION {{ExpressionStatement(Assignment("x", e)),
            ExpressionStatement(Assignment("x", BinaryOp(e, "+", Literal(1)))),
            ExpressionStatement(FunctionCall("f", <<e>>))} :
              e \in ConstantIndexed \cup VariableIndexed}

ConstDecls == {ConstDeclaration("int", "k", Literal(3))}

Decls == VarDecls \cup ArrayDecls \cup ConstDecls

\* label: name   and   goto name [if (condition)];
LabelNames == {"start", "f", "_main"}

Jumps ==
    {GotoStatement("start", None),
     GotoStatement("start", BinaryOp(X, "<", Literal(1)))}

Compound == IfFam \cup WhileFam \cup ForFam \cup SwitchFam \cup Nested

Statements == Leafs \cup Compound

Programs ==
    \* one statement, at top level and in the body of a called function
    {Program(<<s>>) : s \in Statements}
    \cup {Program(<<FunctionDeclaration("f", <<>>, <<s>>), CallF>>) :
             s \in Statements}
    \cup {Program(<<FunctionDeclaration("f", <<>>, <<s, SetA>>), CallF>>) :
             s \in Inner}
    \* a return in a branch of an if, with a statement after the if
    \cup {Program(<<FunctionDeclaration("f", <<>>, <<IfStatement(c, t, e), SetA>>),
                    CallF>>) :
             c \in Conds, t \in {<<ReturnStatement>>, <<SetX, ReturnStatement>>},
             e \in {None, Block(<<SetB>>)}}
    \cup {Program(<<FunctionDeclaration("f", <<>>,
                        <<IfStatement(c, <<SetX>>, Block(<<ReturnStatement>>)),
                          SetA>>),
                    CallF, SetB>>) : c \in Conds}
    \* a function with parameters and a call of it
    \cup {Program(<<FunctionDeclaration("f", ps, b), c>>) :
             ps \in ParamLists, b \in {<<>>, <<SetX>>}, c \in Calls}
    \* calls with text arguments, of an undeclared and of a declared function
    \cup {Program(<<c>>) : c \in StringCalls}
    \cup {Program(<<FunctionDeclaration("test", <<"name">>, <<SetX>>), c>>) :
             c \in StringCalls}
    \* two structurally identical independent constructs
    \cup {Program(<<s, s>>) : s \in Inner}
    \* declarations: alone, before a statement, before a function
    \cup {Program(<<d>>) : d \in Decls}
    \cup {Program(<<d, s>>) : d \in Decls, s \in Inner \cup {SetA}}
    \cup {Program(<<d, FunctionDeclaration("f", <<>>, <<SetA>>)>>) : d \in Decls}
    \cup {Program(<<d1, d2>>) : d1 \in VarDecls, d2 \in ArrayDecls}
    \cup {Program(<<FunctionDeclaration("f", <<>>, b)>>) :
             b \in {<<>>, <<SetA>>, <<ReturnStatement>>,
                    <<SetX, ReturnStatement>>, <<ReturnStatement, SetX>>}}
    \* arrays and reads of their elements
    \cup {Program(<<d>>) : d \in MoreArrayDecls}
    \cup {Program(<<d, r>>) : d \in ArrayDecls \cup MoreArrayDecls, r \in ArrayReads}
    \cup {Program(<<FunctionDeclaration("f", <<"a">>, <<d, r>>), CallF>>) :
             d \in MoreArrayDecls, r \in ArrayReads}
    \* user labels and jumps to them
    \cup {Program(<<LabelDeclaration(n)>>) : n \in LabelNames}
    \cup {Program(<<LabelDeclaration("start"), s, j>>) :
             s \in {IncX, LabelDeclaration("start")}, j \in Jumps}
    \cup {Program(<<FunctionDeclaration("f", <<>>, <<SetA>>),
                    LabelDeclaration("f"), CallF>>)}
    \* expression statements that are no instruction
    \cup {Program(<<ExpressionStatement(e)>>) :
             e \in {BinaryOp(X, "+", Literal(1)), UnaryOp("-", X, FALSE)}}

(***************************************************************************)
(* The lexer (src/src/clearscript/lexer.py).  The source is a sequence of  *)
(* one-character strings; a token is a record of its type, its value and   *)
(* the line and column it starts at.  The value of a NUMBER is an int      *)
(* (ntype "int") or a float (ntype "float": value is the integer part and  *)
(* svalue the fraction digits of its repr); every other value is text.     *)
(***************************************************************************)
NoChar == ""    \* current_char() is None: past the end of the source

Digits == {"0", "1", "2", "3", "4", "5", "6", "7", "8", "9"}

Letters ==
    {"a", "b", "c", "d", "e", "f", "g", "h", "i", "j", "k", "l", "m", "n",
     "o", "p", "q", "r", "s", "t", "u", "v", "w", "x", "y", "z",
     "A", "B", "C", "D", "E", "F", "G", "H", "I", "J", "K", "L", "M", "N",
     "O", "P", "Q", "R", "S", "T", "U", "V", "W", "X", "Y", "Z"}

Whitespace == {" ", "\t", "\r", "\n"}

KEYWORDS ==
    ("int" :> "INT") @@ ("float" :> "FLOAT") @@ ("function" :> "FUNCTION") @@
    ("goto" :> "GOTO") @@ ("label" :> "LABEL") @@ ("do" :> "DO") @@
    ("in" :> "IN") @@ ("if" :> "IF") @@ ("else" :> "ELSE") @@
    ("while" :> "WHILE") @@ ("return" :> "RETURN") @@ ("wait" :> "WAIT") @@
    ("waitfor" :> "WAITFOR") @@ ("kill" :> "KILL") @@
    ("thread" :> "THREAD") @@ ("set" :> "SET") @@ ("push" :> "PUSH") @@
    ("pop" :> "POP") @@ ("peek" :> "PEEK") @@ ("spawnbot" :> "SPAWNBOT") @@
    ("moveto" :> "MOVETO") @@ ("animate" :> "ANIMATE") @@
    ("delete" :> "DELETE") @@ ("raw" :> "RAW") @@ ("class" :> "CLASS") @@
    ("struct" :> "STRUCT") @@ ("method" :> "METHOD") @@ ("this" :> "THIS") @@
    ("new" :> "NEW") @@ ("for" :> "FOR") @@ ("switch" :> "SWITCH") @@
    ("case" :> "CASE") @@ ("break" :> "BREAK") @@ ("default" :> "DEFAULT") @@
    ("const" :> "CONST") @@ ("enum" :> "ENUM") @@ ("auto" :> "AUTO")

Token(type, ntype, value, svalue, line, column) ==
    [type |-> type, ntype |-> ntype, value |-> value, svalue |-> svalue,
     line |-> line, column |-> column]

\* an exception that ended the front end; type "" when none was raised
NoFailure == [type |-> "", what |-> "", line |-> 0, column |-> 0]

Failure(type, what, line, column) ==
    [type |-> type, what |-> what, line |-> line, column |-> column]

\* Lexer.__init__
NewLexer == [pos |-> 1, line |-> 1, column |-> 1, tokens |-> <<>>,
             exc |-> NoFailure]

current_char(s, st) == IF st.pos > Len(s) THEN NoChar ELSE s[st.pos]

peek_char(s, st) == IF st.pos + 1 > Len(s) THEN NoChar ELSE s[st.pos + 1]

advance(s, st) ==
    IF st.pos > Len(s) THEN st
    ELSE [st EXCEPT !.pos = @ + 1,
                    !.line = IF s[st.pos] = "\n" THEN @ + 1 ELSE @,
                    !.column = IF s[st.pos] = "\n" THEN 1 ELSE @ + 1]

lexer_raise(st, type, what, line, column) ==
    [st EXCEPT !.exc = Failure(type, what, line, column)]

add_token(st, tok) == [st EXCEPT !.tokens = Append(@, tok)]

RECURSIVE skip_whitespace(_, _)
skip_whitespace(s, st) ==
    IF current_char(s, st) \in Whitespace
    THEN skip_whitespace(s, advance(s, st))
    ELSE st

\* the characters of cs as one string
RECURSIVE join(_)
join(cs) == IF cs = <<>> THEN "" ELSE Head(cs) \o join(Tail(cs))

\* str.strip()
RECURSIVE lstrip(_)
lstrip(cs) ==
    IF cs # <<>> /\ Head(cs) \in Whitespace THEN lstrip(Tail(cs)) ELSE cs

RECURSIVE rstrip(_)
rstrip(cs) ==
    IF cs # <<>> /\ cs[Len(cs)] \in Whitespace
    THEN rstrip(SubSeq(cs, 1, Len(cs) - 1))
    ELSE cs

strip(cs) == join(rstrip(lstrip(cs)))

\* the loop of read_line_comment: up to the end of the line
RECURSIVE line_comment_loop(_, _, _)
line_comment_loop(s, st, comment) ==
    IF current_char(s, st) # NoChar /\ current_char(s, st) # "\n"
    THEN line_comment_loop(s, advance(s, st), Append(comment, current_char(s, st)))
    ELSE [st |-> st, value |-> strip(comment)]

read_line_comment(s, st) ==
    line_comment_loop(s, advance(s, advance(s, st)), <<>>)

\* the loop of read_block_comment: up to the closing */
RECURSIVE block_comment_loop(_, _, _)
block_comment_loop(s, st, comment) ==
    IF current_char(s, st) = NoChar
    THEN [st |-> lexer_raise(st, "SyntaxError", "Unterminated block comment",
                             st.line, st.column),
          value |-> ""]
    ELSE IF current_char(s, st) = "*" /\ peek_char(s, st) = "/"
    THEN [st |-> advance(s, advance(s, st)), value |-> strip(comment)]
    ELSE block_comment_loop(s, advance(s, st),
                            Append(comment, current_char(s, st)))

read_block_comment(s, st) ==
    block_comment_loop(s, advance(s, advance(s, st)), <<>>)

\* the loop of read_number: the run of digits and points
RECURSIVE number_loop(_, _, _)
number_loop(s, st, num_str) ==
    IF current_char(s, st) \in Digits \cup {"."}
    THEN number_loop(s, advance(s, st), Append(num_str, current_char(s, st)))
    ELSE [st |-> st, num_str |-> num_str]

DigitValue(c) == CHOOSE n \in 0..9 : ToString(n) = c

\* int(num_str) of a run of digits; 0 for the empty run
RECURSIVE int(_)
int(ds) ==
    IF ds = <<>> THEN 0
    ELSE 10 * int(SubSeq(ds, 1, Len(ds) - 1)) + DigitValue(ds[Len(ds)])

\* the fraction digits of repr(float(num_str)): trailing zeros dropped
RECURSIVE fraction_repr(_)
fraction_repr(ds) ==
    IF ds = <<>> THEN "0"
    ELSE IF ds[Len(ds)] = "0" THEN fraction_repr(SubSeq(ds, 1, Len(ds) - 1))
    ELSE join(ds)

Points(cs) == {i \in 1..Len(cs) : cs[i] = "."}

read_number(s, st) ==
    LET run == number_loop(s, st, <<>>)
        num_str == run.num_str
    IN  IF Points(num_str) = {}
        THEN add_token(run.st, Token("NUMBER", "int", int(num_str), "",
                                     st.line, st.column))
        ELSE IF Cardinality(Points(num_str)) = 1
        THEN LET dot == CHOOSE i \in Points(num_str) : TRUE
             IN  add_token(run.st,
                     Token("NUMBER", "float", int(SubSeq(num_str, 1, dot - 1)),
                           fraction_repr(SubSeq(num_str, dot + 1, Len(num_str))),
                           st.line, st.column))
        \* float() of a run with more than one point
        ELSE lexer_raise(run.st, "ValueError", "could not convert string to float",
                         0, 0)

\* the loop of read_identifier
RECURSIVE identifier_loop(_, _, _)
identifier_loop(s, st, ident) ==
    IF current_char(s, st) \in Letters \cup Digits \cup {"_"}
    THEN identifier_loop(s, advance(s, st), ident \o current_char(s, st))
    ELSE [st |-> st, ident |-> ident]

read_identifier(s, st) ==
    LET run == identifier_loop(s, st, "")
        token_type == IF run.ident \in DOMAIN KEYWORDS
                      THEN KEYWORDS[run.ident] ELSE "IDENTIFIER"
    IN  add_token(run.st, Token(token_type, "str", 0, run.ident,
                                st.line, st.column))

\* the loop of read_string: up to the closing quote, resolving escapes
RECURSIVE string_loop(_, _, _, _)
string_loop(s, st, quote_char, string) ==
    IF current_char(s, st) # NoChar /\ current_char(s, st) # quote_char
    THEN IF current_char(s, st) = "\\"
         THEN LET esc == advance(s, st)
                  escape_char == current_char(s, esc)
              IN  CASE escape_char = "n" ->
                         string_loop(s, advance(s, esc), quote_char, string \o "\n")
                    [] escape_char = "t" ->
                         string_loop(s, advance(s, esc), quote_char, string \o "\t")
                    \* string += None
                    [] escape_char = NoChar ->
                         [st |-> lexer_raise(esc, "TypeError",
                                    "can only concatenate str to str", 0, 0),
                          string |-> string]
                    [] OTHER ->
                         string_loop(s, advance(s, esc), quote_char,
                                     string \o escape_char)
         ELSE string_loop(s, advance(s, st), quote_char,
                          string \o current_char(s, st))
    ELSE [st |-> st, string |-> string]

read_string(s, st) ==
    LET quote_char == current_char(s, st)
        run == string_loop(s, advance(s, st), quote_char, "")
    IN  IF run.st.exc # NoFailure THEN run.st
        ELSE IF current_char(s, run.st) # quote_char
        THEN lexer_raise(run.st, "SyntaxError", "Unterminated string",
                         st.line, st.column)
        ELSE add_token(advance(s, run.st),
                       Token("STRING", "str", 0, run.string, st.line, st.column))

two_char_operators ==
    [p \in {<<"=", "=">>, <<"!", "=">>, <<"<", "=">>, <<">", "=">>,
            <<"&", "&">>, <<"|", "|">>, <<"+", "+">>, <<"-", "-">>} |->
        CASE p = <<"=", "=">> -> "EQ"
          [] p = <<"!", "=">> -> "NEQ"
          [] p = <<"<", "=">> -> "LTE"
          [] p = <<">", "=">> -> "GTE"
          [] p = <<"&", "&">> -> "AND"
          [] p = <<"|", "|">> -> "OR"
          [] p = <<"+", "+">> -> "INCREMENT"
          [] OTHER -> "DECREMENT"]

single_char_tokens ==
    [c \in {"+", "-", "*", "/", "=", "<", ">", "!", "(", ")", "{", "}", "[",
            "]", ";", ",", ":", ".", "?"} |->
        CASE c = "+" -> "PLUS"
          [] c = "-" -> "MINUS"
          [] c = "*" -> "MULTIPLY"
          [] c = "/" -> "DIVIDE"
          [] c = "=" -> "ASSIGN"
          [] c = "<" -> "LT"
          [] c = ">" -> "GT"
          [] c = "!" -> "NOT"
          [] c = "(" -> "LPAREN"
          [] c = ")" -> "RPAREN"
          [] c = "{" -> "LBRACE"
          [] c = "}" -> "RBRACE"
          [] c = "[" -> "LBRACKET"
          [] c = "]" -> "RBRACKET"
          [] c = ";" -> "SEMICOLON"
          [] c = "," -> "COMMA"
          [] c = ":" -> "COLON"
          [] c = "." -> "DOT"
          [] OTHER -> "QUESTION"]

\* one round of the loop of tokenize, at a character that is not whitespace
scan_token(s, st) ==
    LET char == current_char(s, st)
        next == peek_char(s, st)
    IN  IF char = "/" /\ next = "/"
        THEN LET c == read_line_comment(s, st)
             IN  add_token(c.st, Token("COMMENT", "str", 0, c.value,
                                       st.line, st.column))
        ELSE IF char = "/" /\ next = "*"
        THEN LET c == read_block_comment(s, st)
             IN  IF c.st.exc # NoFailure THEN c.st
                 ELSE add_token(c.st, Token("COMMENT", "str", 0, c.value,
                                            st.line, st.column))
        ELSE IF char \in Digits THEN read_number(s, st)
        ELSE IF char \in Letters \cup {"_"} THEN read_identifier(s, st)
        ELSE IF char \in {"\"", "'"} THEN read_string(s, st)
        ELSE IF <<char, next>> \in DOMAIN two_char_operators
        THEN add_token(advance(s, advance(s, st)),
                       Token(two_char_operators[<<char, next>>], "str", 0,
                             char \o next, st.line, st.column))
        ELSE IF char \in DOMAIN single_char_tokens
        THEN add_token(advance(s, st),
                       Token(single_char_tokens[char], "str", 0, char,
                             st.line, st.column))
        ELSE lexer_raise(st, "SyntaxError", "Unexpected character",
                         st.line, st.column)

RECURSIVE tokenize_loop(_, _)
tokenize_loop(s, st) ==
    IF st.exc # NoFailure THEN st
    ELSE LET w == skip_whitespace(s, st)
         IN  IF st.pos > Len(s) \/ current_char(s, w) = NoChar
             THEN add_token(w, Token("EOF", "none", 0, "", w.line, w.column))
             ELSE tokenize_loop(s, scan_token(s, w))

\* Lexer(source).tokenize()
tokenize(s) == tokenize_loop(s, NewLexer)

(***************************************************************************)
(* The parser (src/src/clearscript/parser.py).  A parse function takes the *)
(* token list ts and a position p and returns the node it built, the       *)
(* position after it and the exception it raised.                          *)
(***************************************************************************)
Parsed(node, p) == [node |-> node, pos |-> p, exc |-> NoFailure]

current_token(ts, p) == IF p > Len(ts) THEN ts[Len(ts)] ELSE ts[p]

\* advance() moving past the final EOF token
advance_past_eof(ts, p) == p + 1

parser_advance(ts, p) == IF p < Len(ts) THEN p + 1 ELSE p

match(ts, p, token_types) == current_token(ts, p).type \in token_types

Failed(exc) == [node |-> None, pos |-> 0, exc |-> exc]

ParseError(what, tok) == Failed(Failure("ParseError", what, tok.line, tok.column))

\* expect(token_type): the position after the token, or the ParseError
expect(ts, p, token_type) ==
    IF current_token(ts, p).type # token_type
    THEN ParseError("Expected " \o token_type, current_token(ts, p))
    ELSE Parsed(None, parser_advance(ts, p))

RECURSIVE skip_comments(_, _)
skip_comments(ts, p) ==
    IF match(ts, p, {"COMMENT"})
    THEN skip_comments(ts, parser_advance(ts, p))
    ELSE p

\* a raised exception propagates; otherwise the parse goes on with the result r
Then(r, Continue(_)) == IF r.exc # NoFailure THEN Failed(r.exc) ELSE Continue(r)

\* the levels with the additive and the multiplicative operators exchanged
operators_levels_exchanged ==
    <<{"OR"}, {"AND"}, {"EQ", "NEQ"}, {"LT", "GT", "LTE", "GTE"},
      {"MULTIPLY", "DIVIDE"}, {"PLUS", "MINUS"}>>

\* the operator tokens of the binary levels, loosest first:
\* parse_logical_or, parse_logical_and, parse_equality, parse_comparison,
\* parse_additive, parse_multiplicative
operators_of_level ==
    <<{"OR"}, {"AND"}, {"EQ", "NEQ"}, {"LT", "GT", "LTE", "GTE"},
      {"PLUS", "MINUS"}, {"MULTIPLY", "DIVIDE"}>>

RECURSIVE parse_expression(_, _), parse_binary(_, _, _), binary_loop(_, _, _),
          parse_unary(_, _), parse_postfix(_, _), postfix_loop(_, _),
          parse_primary(_, _), expression_list(_, _, _, _)

parse_ternary(ts, p) ==
    Then(parse_binary(ts, p, 1), LAMBDA c :
        IF ~match(ts, c.pos, {"QUESTION"}) THEN c
        ELSE Then(parse_expression(ts, parser_advance(ts, c.pos)), LAMBDA t :
             Then(expect(ts, t.pos, "COLON"), LAMBDA colon :
             Then(parse_expression(ts, colon.pos), LAMBDA f :
                 Parsed(TernaryExpression(c.node, t.node, f.node), f.pos)))))

parse_expression(ts, p) == parse_ternary(ts, p)

\* the operand of a binary level: the next tighter level
operand_of_level(ts, p, level) ==
    IF level = Len(operators_of_level) THEN parse_unary(ts, p)
    ELSE parse_binary(ts, p, level + 1)

\* while self.match(operators): left = BinaryOp(left, op, right)
binary_loop(ts, left, level) ==
    Then(left, LAMBDA l :
        IF ~match(ts, l.pos, operators_of_level[level]) THEN l
        ELSE binary_loop(ts,
                 Then(operand_of_level(ts, parser_advance(ts, l.pos), level),
                      LAMBDA right :
                          Parsed(BinaryOp(l.node, current_token(ts, l.pos).svalue,
                                          right.node),
                                 right.pos)),
                 level))

parse_binary(ts, p, level) ==
    binary_loop(ts, operand_of_level(ts, p, level), level)

parse_logical_or(ts, p) == parse_binary(ts, p, 1)

parse_logical_and(ts, p) == parse_binary(ts, p, 2)

parse_equality(ts, p) == parse_binary(ts, p, 3)

parse_comparison(ts, p) == parse_binary(ts, p, 4)

parse_additive(ts, p) == parse_binary(ts, p, 5)

parse_multiplicative(ts, p) == parse_binary(ts, p, 6)

parse_unary(ts, p) ==
    IF match(ts, p, {"NOT", "MINUS", "INCREMENT", "DECREMENT"})
    THEN Then(parse_unary(ts, parser_advance(ts, p)), LAMBDA operand :
             Parsed(UnaryOp(current_token(ts, p).svalue, operand.node, FALSE),
                    operand.pos))
    ELSE parse_postfix(ts, p)

\* the list goes on after the element e, past an optional comma
expression_list_rest(ts, e, closing, elements) ==
    Then(e, LAMBDA x :
        expression_list(ts,
            IF match(ts, x.pos, {"COMMA"}) THEN parser_advance(ts, x.pos) ELSE x.pos,
            closing, Append(elements, x.node)))

\* while not self.match(closing): parse_expression, then an optional comma;
\* the result holds the list in node and the position of the closing token
expression_list(ts, p, closing, elements) ==
    IF match(ts, p, {closing}) THEN Parsed(elements, p)
    ELSE expression_list_rest(ts, parse_expression(ts, p), closing, elements)

parse_array_literal(ts, p) ==
    Then(expression_list(ts, parser_advance(ts, p), "RBRACKET", <<>>), LAMBDA es :
        Parsed(ArrayLiteral(es.node), parser_advance(ts, es.pos)))

parse_primary(ts, p) ==
    LET token == current_token(ts, p)
    IN  IF token.type = "NUMBER"
        THEN Parsed(IF token.ntype = "float"
                    THEN FloatLiteral(token.value, token.svalue)
                    ELSE Literal(token.value),
                    parser_advance(ts, p))
        ELSE IF token.type = "STRING"
        THEN Parsed(StringLiteral(token.svalue), parser_advance(ts, p))
        ELSE IF token.type = "LBRACKET" THEN parse_array_literal(ts, p)
        ELSE IF token.type = "IDENTIFIER"
        THEN Parsed(Identifier(token.svalue), parser_advance(ts, p))
        ELSE IF token.type = "LPAREN"
        THEN Then(parse_expression(ts, parser_advance(ts, p)), LAMBDA e :
             Then(expect(ts, e.pos, "RPAREN"), LAMBDA close :
                 Parsed(e.node, close.pos)))
        ELSE ParseError("Unexpected token", token)

\* one round of the loop of parse_postfix: indexing, member access, call,
\* ++ or -- applied to expr
postfix_step(ts, expr) ==
    IF match(ts, expr.pos, {"LBRACKET"})
    THEN Then(parse_expression(ts, parser_advance(ts, expr.pos)), LAMBDA index :
         Then(expect(ts, index.pos, "RBRACKET"), LAMBDA close :
             Parsed(ArrayAccess(expr.node, index.node), close.pos)))
    ELSE IF match(ts, expr.pos, {"DOT"})
    THEN Then(expect(ts, parser_advance(ts, expr.pos), "IDENTIFIER"), LAMBDA member :
             Parsed(MemberAccess(expr.node,
                        current_token(ts, parser_advance(ts, expr.pos)).svalue),
                    member.pos))
    ELSE IF match(ts, expr.pos, {"LPAREN"})
    THEN Then(expression_list(ts, parser_advance(ts, expr.pos), "RPAREN", <<>>),
              LAMBDA args :
                  IF expr.node.kind = "Identifier"
                  THEN Parsed(FunctionCall(expr.node.name, args.node),
                              parser_advance(ts, args.pos))
                  ELSE ParseError("Only identifiers can be called as functions",
                                  current_token(ts, expr.pos)))
    ELSE Parsed(UnaryOp(current_token(ts, expr.pos).svalue, expr.node, TRUE),
                parser_advance(ts, expr.pos))

postfix_loop(ts, expr) ==
    Then(expr, LAMBDA e :
        IF match(ts, e.pos, {"LBRACKET", "DOT", "LPAREN", "INCREMENT", "DECREMENT"})
        THEN postfix_loop(ts, postfix_step(ts, e))
        ELSE e)

parse_postfix(ts, p) ==
    Then(postfix_loop(ts, parse_primary(ts, p)), LAMBDA expr :
        IF ~match(ts, expr.pos, {"ASSIGN"}) THEN expr
        ELSE Then(parse_expression(ts, parser_advance(ts, expr.pos)), LAMBDA value :
                 IF expr.node.kind = "Identifier"
                 THEN Parsed(Assignment(expr.node.name, value.node), value.pos)
                 ELSE ParseError("Invalid assignment target",
                                 current_token(ts, expr.pos))))

parse_expression_statement(ts, p) ==
    Then(parse_expression(ts, p), LAMBDA expr :
    Then(expect(ts, expr.pos, "SEMICOLON"), LAMBDA semi :
        Parsed(ExpressionStatement(expr.node), semi.pos)))

peek_token(ts, p) == IF p + 1 > Len(ts) THEN ts[Len(ts)] ELSE ts[p + 1]

\* str(token.value): the text of a token, the digits of a NUMBER
token_str(tok) ==
    IF tok.type = "NUMBER"
    THEN IF tok.ntype = "float" THEN str(tok.value) \o "." \o tok.svalue
         ELSE str(tok.value)
    ELSE tok.svalue

\* what one token inside a raw block adds to raw_code
raw_text(tok) ==
    IF tok.type = "STRING" THEN <<"[" \o tok.svalue \o "]">>
    ELSE IF token_str(tok) # "" THEN <<token_str(tok)>>
    ELSE <<>>

\* the loop of parse_raw_block: up to the brace that brings the count to 0,
\* or to EOF; no element of raw_code starts or ends with whitespace, so the
\* strip() of the joined text changes nothing
RECURSIVE raw_block_loop(_, _, _, _)
raw_block_loop(ts, p, brace_count, raw_code) ==
    IF brace_count > 0 /\ ~match(ts, p, {"EOF"})
    THEN IF match(ts, p, {"LBRACE"})
         THEN raw_block_loop(ts, parser_advance(ts, p), brace_count + 1,
                             Append(raw_code, "{"))
         ELSE IF match(ts, p, {"RBRACE"})
         THEN raw_block_loop(ts, parser_advance(ts, p), brace_count - 1,
                             IF brace_count - 1 > 0 THEN Append(raw_code, "}")
                             ELSE raw_code)
         ELSE raw_block_loop(ts, parser_advance(ts, p), brace_count,
                             raw_code \o raw_text(current_token(ts, p)))
    ELSE Parsed(RawBlock(join_spaced(raw_code)), p)

parse_raw_block(ts, p) ==
    Then(expect(ts, parser_advance(ts, p), "LBRACE"), LAMBDA open :
        raw_block_loop(ts, open.pos, 1, <<>>))

\* const int name = value;
parse_const_declaration(ts, p) ==
    IF ~match(ts, parser_advance(ts, p), {"INT", "FLOAT"})
    THEN ParseError("Expected type after const", [line |-> 0, column |-> 0])
    ELSE Then(expect(ts, parser_advance(ts, parser_advance(ts, p)), "IDENTIFIER"),
              LAMBDA name :
         Then(expect(ts, name.pos, "ASSIGN"), LAMBDA assign :
         Then(parse_expression(ts, assign.pos), LAMBDA value :
         Then(expect(ts, value.pos, "SEMICOLON"), LAMBDA semi :
             Parsed(ConstDeclaration(
                        current_token(ts, parser_advance(ts, p)).svalue,
                        current_token(ts, parser_advance(ts, parser_advance(ts, p))).svalue,
                        value.node),
                    semi.pos)))))

\* int x = 5;  or  int[] arr = [1, 2, 3];
parse_variable_declaration(ts, p) ==
    Then(IF match(ts, parser_advance(ts, p), {"LBRACKET"})
         THEN expect(ts, parser_advance(ts, parser_advance(ts, p)), "RBRACKET")
         ELSE Parsed(None, parser_advance(ts, p)), LAMBDA brackets :
    Then(expect(ts, brackets.pos, "IDENTIFIER"), LAMBDA name :
    Then(IF match(ts, name.pos, {"ASSIGN"})
         THEN parse_expression(ts, parser_advance(ts, name.pos))
         ELSE Parsed(None, name.pos), LAMBDA value :
    Then(expect(ts, value.pos, "SEMICOLON"), LAMBDA semi :
        Parsed(IF match(ts, parser_advance(ts, p), {"LBRACKET"})
               THEN ArrayDeclaration(current_token(ts, p).svalue,
                                     current_token(ts, brackets.pos).svalue,
                                     value.node)
               ELSE VariableDeclaration(current_token(ts, p).svalue,
                                        current_token(ts, brackets.pos).svalue,
                                        value.node),
               semi.pos)))))

\* while not self.match(RPAREN): a parameter name, then an optional comma
RECURSIVE parameter_loop(_, _, _)
parameter_loop(ts, p, params) ==
    IF match(ts, p, {"RPAREN"}) THEN Parsed(params, p)
    ELSE Then(expect(ts, p, "IDENTIFIER"), LAMBDA param :
             parameter_loop(ts,
                 IF match(ts, param.pos, {"COMMA"})
                 THEN parser_advance(ts, param.pos) ELSE param.pos,
                 Append(params, current_token(ts, p).svalue)))

RECURSIVE parse_statement(_, _)

\* the loop of parse_block, entered past the comments: statements up to a
\* closing brace or EOF
RECURSIVE block_loop(_, _, _)
block_loop(ts, p, statements) ==
    IF match(ts, p, {"RBRACE", "EOF"}) THEN Parsed(statements, p)
    ELSE Then(parse_statement(ts, p), LAMBDA stmt :
             block_loop(ts, skip_comments(ts, stmt.pos),
                        Append(statements, stmt.node)))

parse_block(ts, p) == block_loop(ts, skip_comments(ts, p), <<>>)

\* ( params ) { body } after the name of a function or a method
parse_signature_and_body(ts, p) ==
    Then(expect(ts, p, "LPAREN"), LAMBDA open :
    Then(parameter_loop(ts, open.pos, <<>>), LAMBDA params :
    Then(expect(ts, params.pos, "RPAREN"), LAMBDA close :
    Then(expect(ts, close.pos, "LBRACE"), LAMBDA brace :
    Then(parse_block(ts, brace.pos), LAMBDA body :
    Then(expect(ts, body.pos, "RBRACE"), LAMBDA end :
        Parsed([params |-> params.node, body |-> body.node], end.pos)))))))

parse_function_declaration(ts, p) ==
    Then(expect(ts, parser_advance(ts, p), "IDENTIFIER"), LAMBDA name :
    Then(parse_signature_and_body(ts, name.pos), LAMBDA f :
        Parsed(FunctionDeclaration(current_token(ts, parser_advance(ts, p)).svalue,
                                   f.node.params, f.node.body),
               f.pos)))

parse_method_declaration(ts, p) ==
    Then(expect(ts, parser_advance(ts, p), "IDENTIFIER"), LAMBDA name :
    Then(parse_signature_and_body(ts, name.pos), LAMBDA m :
        Parsed(MethodDeclaration(current_token(ts, parser_advance(ts, p)).svalue,
                                 m.node.params, m.node.body),
               m.pos)))

\* the body of a class: methods and properties up to the closing brace
RECURSIVE class_body_loop(_, _, _, _)
class_body_loop(ts, p, properties, methods) ==
    IF match(ts, p, {"RBRACE"})
    THEN Parsed([properties |-> properties, methods |-> methods], p)
    ELSE IF match(ts, p, {"METHOD"})
    THEN Then(parse_method_declaration(ts, p), LAMBDA m :
             class_body_loop(ts, m.pos, properties, Append(methods, m.node)))
    ELSE IF match(ts, p, {"INT", "FLOAT"})
    THEN Then(parse_variable_declaration(ts, p), LAMBDA prop :
             class_body_loop(ts, prop.pos, Append(properties, prop.node), methods))
    ELSE ParseError("Unexpected token in class body", [line |-> 0, column |-> 0])

parse_class_declaration(ts, p) ==
    Then(expect(ts, parser_advance(ts, p), "IDENTIFIER"), LAMBDA name :
    Then(expect(ts, name.pos, "LBRACE"), LAMBDA brace :
    Then(class_body_loop(ts, brace.pos, <<>>, <<>>), LAMBDA body :
    Then(expect(ts, body.pos, "RBRACE"), LAMBDA end :
        Parsed(ClassDeclaration(current_token(ts, parser_advance(ts, p)).svalue,
                                body.node.properties, body.node.methods),
               end.pos)))))

\* the body of a struct: properties up to the closing brace
RECURSIVE struct_body_loop(_, _, _)
struct_body_loop(ts, p, properties) ==
    IF match(ts, p, {"RBRACE"}) THEN Parsed(properties, p)
    ELSE IF match(ts, p, {"INT", "FLOAT"})
    THEN Then(parse_variable_declaration(ts, p), LAMBDA prop :
             struct_body_loop(ts, prop.pos, Append(properties, prop.node)))
    ELSE ParseError("Unexpected token in struct body", [line |-> 0, column |-> 0])

parse_struct_declaration(ts, p) ==
    Then(expect(ts, parser_advance(ts, p), "IDENTIFIER"), LAMBDA name :
    Then(expect(ts, name.pos, "LBRACE"), LAMBDA brace :
    Then(struct_body_loop(ts, brace.pos, <<>>), LAMBDA body :
    Then(expect(ts, body.pos, "RBRACE"), LAMBDA end :
        Parsed(StructDeclaration(current_token(ts, parser_advance(ts, p)).svalue,
                                 body.node),
               end.pos)))))

\* label: name
parse_label_declaration(ts, p) ==
    Then(expect(ts, parser_advance(ts, p), "COLON"), LAMBDA colon :
    Then(expect(ts, colon.pos, "IDENTIFIER"), LAMBDA name :
        Parsed(LabelDeclaration(current_token(ts, colon.pos).svalue), name.pos)))

\* goto label;  or  goto label if (condition);
parse_goto_statement(ts, p) ==
    Then(expect(ts, parser_advance(ts, p), "IDENTIFIER"), LAMBDA label :
    Then(IF match(ts, label.pos, {"IF"})
         THEN Then(expect(ts, parser_advance(ts, label.pos), "LPAREN"), LAMBDA open :
              Then(parse_expression(ts, open.pos), LAMBDA c :
              Then(expect(ts, c.pos, "RPAREN"), LAMBDA close :
                  Parsed(c.node, close.pos))))
         ELSE Parsed(None, label.pos), LAMBDA condition :
    Then(expect(ts, condition.pos, "SEMICOLON"), LAMBDA semi :
        Parsed(GotoStatement(current_token(ts, parser_advance(ts, p)).svalue,
                             condition.node),
               semi.pos))))

\* ( expression ) ;  after the keyword of wait, waitfor and push
one_expression_call(ts, p) ==
    Then(expect(ts, parser_advance(ts, p), "LPAREN"), LAMBDA open :
    Then(parse_expression(ts, open.pos), LAMBDA e :
    Then(expect(ts, e.pos, "RPAREN"), LAMBDA close :
    Then(expect(ts, close.pos, "SEMICOLON"), LAMBDA semi :
        Parsed(e.node, semi.pos)))))

\* ( name ) ;  after the keyword of pop and peek
one_name_call(ts, p) ==
    Then(expect(ts, parser_advance(ts, p), "LPAREN"), LAMBDA open :
    Then(expect(ts, open.pos, "IDENTIFIER"), LAMBDA name :
    Then(expect(ts, name.pos, "RPAREN"), LAMBDA close :
    Then(expect(ts, close.pos, "SEMICOLON"), LAMBDA semi :
        Parsed(current_token(ts, open.pos).svalue, semi.pos)))))

\* kill();
parse_kill_statement(ts, p) ==
    Then(expect(ts, parser_advance(ts, p), "LPAREN"), LAMBDA open :
    Then(expect(ts, open.pos, "RPAREN"), LAMBDA close :
    Then(expect(ts, close.pos, "SEMICOLON"), LAMBDA semi :
        Parsed(ExpressionStatement(KillStatement), semi.pos))))

\* return;
parse_return_statement(ts, p) ==
    Then(expect(ts, parser_advance(ts, p), "SEMICOLON"), LAMBDA semi :
        Parsed(ReturnStatement, semi.pos))

parse_wait_statement(ts, p) ==
    Then(one_expression_call(ts, p), LAMBDA time :
        Parsed(ExpressionStatement(WaitStatement(time.node)), time.pos))

parse_waitfor_statement(ts, p) ==
    Then(one_expression_call(ts, p), LAMBDA condition :
        Parsed(ExpressionStatement(WaitForStatement(condition.node)),
               condition.pos))

\* while self.match(COMMA): advance, then one more argument
RECURSIVE thread_args_loop(_, _, _)
thread_args_loop(ts, p, args) ==
    IF ~match(ts, p, {"COMMA"}) THEN Parsed(args, p)
    ELSE Then(parse_expression(ts, parser_advance(ts, p)), LAMBDA arg :
             thread_args_loop(ts, arg.pos, Append(args, arg.node)))

\* thread(label, arg1, arg2);
parse_thread_statement(ts, p) ==
    Then(expect(ts, parser_advance(ts, p), "LPAREN"), LAMBDA open :
    Then(expect(ts, open.pos, "IDENTIFIER"), LAMBDA label :
    Then(thread_args_loop(ts, label.pos, <<>>), LAMBDA args :
    Then(expect(ts, args.pos, "RPAREN"), LAMBDA close :
    Then(expect(ts, close.pos, "SEMICOLON"), LAMBDA semi :
        Parsed(ExpressionStatement(
                   ThreadStatement(current_token(ts, open.pos).svalue, args.node)),
               semi.pos))))))

\* set(var, value);
parse_set_statement(ts, p) ==
    Then(expect(ts, parser_advance(ts, p), "LPAREN"), LAMBDA open :
    Then(expect(ts, open.pos, "IDENTIFIER"), LAMBDA var :
    Then(expect(ts, var.pos, "COMMA"), LAMBDA comma :
    Then(parse_expression(ts, comma.pos), LAMBDA value :
    Then(expect(ts, value.pos, "RPAREN"), LAMBDA close :
    Then(expect(ts, close.pos, "SEMICOLON"), LAMBDA semi :
        Parsed(ExpressionStatement(
                   SetStatement(current_token(ts, open.pos).svalue, value.node)),
               semi.pos)))))))

parse_push_statement(ts, p) ==
    Then(one_expression_call(ts, p), LAMBDA value :
        Parsed(ExpressionStatement(PushStatement(value.node)), value.pos))

parse_pop_statement(ts, p) ==
    Then(one_name_call(ts, p), LAMBDA variable :
        Parsed(ExpressionStatement(PopStatement(variable.node)), variable.pos))

parse_peek_statement(ts, p) ==
    Then(one_name_call(ts, p), LAMBDA variable :
        Parsed(ExpressionStatement(PeekStatement(variable.node)), variable.pos))

\* args[i] if len(args) > i else None   (i counted from 0)
arg_or_none(args, i) == IF Len(args) > i THEN args[i + 1] ELSE None

\* the node of a built-in call, by the type of its keyword
builtin_node(builtin_type, args) ==
    IF builtin_type = "SPAWNBOT"
    THEN SpawnBotCall(arg_or_none(args, 0), arg_or_none(args, 1),
                      IF Len(args) > 2 THEN SubSeq(args, 3, Len(args)) ELSE <<>>)
    ELSE IF builtin_type = "MOVETO"
    THEN MoveToCall(arg_or_none(args, 0), arg_or_none(args, 1))
    ELSE IF builtin_type = "ANIMATE"
    THEN AnimateCall(arg_or_none(args, 0), arg_or_none(args, 1),
                     arg_or_none(args, 2))
    ELSE DeleteCall(arg_or_none(args, 0))

\* spawnbot(...);  moveto(...);  animate(...);  delete(...);
parse_builtin_call(ts, p) ==
    Then(expect(ts, parser_advance(ts, p), "LPAREN"), LAMBDA open :
    Then(expression_list(ts, open.pos, "RPAREN", <<>>), LAMBDA args :
    Then(expect(ts, args.pos, "RPAREN"), LAMBDA close :
    Then(expect(ts, close.pos, "SEMICOLON"), LAMBDA semi :
        Parsed(ExpressionStatement(
                   builtin_node(current_token(ts, p).type, args.node)),
               semi.pos)))))

\* the init of a for loop: a declaration without semicolon, or an expression
for_init(ts, p) ==
    IF match(ts, p, {"SEMICOLON"}) THEN Parsed(None, p)
    ELSE IF match(ts, p, {"INT", "FLOAT"})
    THEN Then(expect(ts, parser_advance(ts, p), "IDENTIFIER"), LAMBDA name :
         Then(IF match(ts, name.pos, {"ASSIGN"})
              THEN parse_expression(ts, parser_advance(ts, name.pos))
              ELSE Parsed(None, name.pos), LAMBDA value :
             Parsed(VariableDeclaration(current_token(ts, p).svalue,
                        current_token(ts, parser_advance(ts, p)).svalue,
                        value.node),
                    value.pos)))
    ELSE parse_expression(ts, p)

\* an expression that may be absent before the token closing
optional_expression(ts, p, closing) ==
    IF match(ts, p, {closing}) THEN Parsed(None, p) ELSE parse_expression(ts, p)

\* { block } at p
braced_block(ts, p) ==
    Then(expect(ts, p, "LBRACE"), LAMBDA brace :
    Then(parse_block(ts, brace.pos), LAMBDA body :
    Then(expect(ts, body.pos, "RBRACE"), LAMBDA close :
        Parsed(body.node, close.pos))))

\* for (init; condition; increment) { body }
parse_for_loop(ts, p) ==
    Then(expect(ts, parser_advance(ts, p), "LPAREN"), LAMBDA open :
    Then(for_init(ts, open.pos), LAMBDA init :
    Then(expect(ts, init.pos, "SEMICOLON"), LAMBDA semi1 :
    Then(optional_expression(ts, semi1.pos, "SEMICOLON"), LAMBDA condition :
    Then(expect(ts, condition.pos, "SEMICOLON"), LAMBDA semi2 :
    Then(optional_expression(ts, semi2.pos, "RPAREN"), LAMBDA increment :
    Then(expect(ts, increment.pos, "RPAREN"), LAMBDA close :
    Then(braced_block(ts, close.pos), LAMBDA body :
        Parsed(ForLoop(init.node, condition.node, increment.node, body.node),
               body.pos)))))))))

\* the statements of a case or of the default: up to a token of stops, or
\* past a break;
RECURSIVE case_statements_loop(_, _, _, _)
case_statements_loop(ts, p, stops, statements) ==
    IF match(ts, p, stops) THEN Parsed(statements, p)
    ELSE IF match(ts, p, {"BREAK"})
    THEN Then(expect(ts, parser_advance(ts, p), "SEMICOLON"), LAMBDA semi :
             Parsed(statements, semi.pos))
    ELSE Then(parse_statement(ts, p), LAMBDA stmt :
             case_statements_loop(ts, stmt.pos, stops,
                                  Append(statements, stmt.node)))

\* the body of a switch: cases and defaults up to a token that opens neither
RECURSIVE switch_body_loop(_, _, _, _)
switch_body_loop(ts, p, cases, default_case) ==
    IF match(ts, p, {"CASE"})
    THEN Then(parse_expression(ts, parser_advance(ts, p)), LAMBDA value :
         Then(expect(ts, value.pos, "COLON"), LAMBDA colon :
         Then(case_statements_loop(ts, colon.pos, {"CASE", "DEFAULT", "RBRACE"},
                                   <<>>), LAMBDA ss :
             switch_body_loop(ts, ss.pos,
                              Append(cases, CaseStatement(value.node, ss.node)),
                              default_case))))
    ELSE IF match(ts, p, {"DEFAULT"})
    THEN Then(expect(ts, parser_advance(ts, p), "COLON"), LAMBDA colon :
         Then(case_statements_loop(ts, colon.pos, {"RBRACE"}, <<>>), LAMBDA ss :
             switch_body_loop(ts, ss.pos, cases, DefaultCase(ss.node))))
    ELSE Parsed([cases |-> cases, default_case |-> default_case], p)

\* switch (expr) { case val: ... default: ... }
parse_switch_statement(ts, p) ==
    Then(expect(ts, parser_advance(ts, p), "LPAREN"), LAMBDA open :
    Then(parse_expression(ts, open.pos), LAMBDA expression :
    Then(expect(ts, expression.pos, "RPAREN"), LAMBDA close :
    Then(expect(ts, close.pos, "LBRACE"), LAMBDA brace :
    Then(switch_body_loop(ts, brace.pos, <<>>, None), LAMBDA body :
    Then(expect(ts, body.pos, "RBRACE"), LAMBDA end :
        Parsed(SwitchStatement(expression.node, body.node.cases,
                               body.node.default_case),
               end.pos)))))))

\* ( condition ) { body } after the keyword of if and while
condition_and_block(ts, p) ==
    Then(expect(ts, parser_advance(ts, p), "LPAREN"), LAMBDA open :
    Then(parse_expression(ts, open.pos), LAMBDA condition :
    Then(expect(ts, condition.pos, "RPAREN"), LAMBDA close :
    Then(braced_block(ts, close.pos), LAMBDA body :
        Parsed([condition |-> condition.node, body |-> body.node], body.pos)))))

\* if (condition) { ... } else { ... }
parse_if_statement(ts, p) ==
    Then(condition_and_block(ts, p), LAMBDA then :
        IF match(ts, then.pos, {"ELSE"})
        THEN Then(braced_block(ts, parser_advance(ts, then.pos)), LAMBDA else :
                 Parsed(IfStatement(then.node.condition, then.node.body,
                                    Block(else.node)),
                        else.pos))
        ELSE Parsed(IfStatement(then.node.condition, then.node.body, None),
                    then.pos))

\* while (condition) { ... }
parse_while_statement(ts, p) ==
    Then(condition_and_block(ts, p), LAMBDA loop :
        Parsed(WhileStatement(loop.node.condition, loop.node.body), loop.pos))

\* set, push, pop, peek: a statement of their own only before a '('
call_or_expression(ts, p, Statement(_, _)) ==
    IF peek_token(ts, p).type = "LPAREN" THEN Statement(ts, p)
    ELSE parse_expression_statement(ts, p)

\* parse_statement past the comments: the statement the current token opens
statement_at(ts, p) ==
    IF match(ts, p, {"CONST"}) THEN parse_const_declaration(ts, p)
    ELSE IF match(ts, p, {"INT", "FLOAT"}) THEN parse_variable_declaration(ts, p)
    ELSE IF match(ts, p, {"FUNCTION"}) THEN parse_function_declaration(ts, p)
    ELSE IF match(ts, p, {"CLASS"}) THEN parse_class_declaration(ts, p)
    ELSE IF match(ts, p, {"STRUCT"}) THEN parse_struct_declaration(ts, p)
    ELSE IF match(ts, p, {"LABEL"}) THEN parse_label_declaration(ts, p)
    ELSE IF match(ts, p, {"GOTO"}) THEN parse_goto_statement(ts, p)
    ELSE IF match(ts, p, {"IF"}) THEN parse_if_statement(ts, p)
    ELSE IF match(ts, p, {"WHILE"}) THEN parse_while_statement(ts, p)
    ELSE IF match(ts, p, {"FOR"}) THEN parse_for_loop(ts, p)
    ELSE IF match(ts, p, {"SWITCH"}) THEN parse_switch_statement(ts, p)
    ELSE IF match(ts, p, {"RETURN"}) THEN parse_return_statement(ts, p)
    ELSE IF match(ts, p, {"KILL"}) THEN parse_kill_statement(ts, p)
    ELSE IF match(ts, p, {"WAIT"}) THEN parse_wait_statement(ts, p)
    ELSE IF match(ts, p, {"WAITFOR"}) THEN parse_waitfor_statement(ts, p)
    ELSE IF match(ts, p, {"THREAD"}) THEN parse_thread_statement(ts, p)
    ELSE IF match(ts, p, {"SET"})
    THEN call_or_expression(ts, p, parse_set_statement)
    ELSE IF match(ts, p, {"PUSH"})
    THEN call_or_expression(ts, p, parse_push_statement)
    ELSE IF match(ts, p, {"POP"})
    THEN call_or_expression(ts, p, parse_pop_statement)
    ELSE IF match(ts, p, {"PEEK"})
    THEN call_or_expression(ts, p, parse_peek_statement)
    ELSE IF match(ts, p, {"SPAWNBOT", "MOVETO", "ANIMATE", "DELETE"})
    THEN parse_builtin_call(ts, p)
    ELSE IF match(ts, p, {"RAW"}) THEN parse_raw_block(ts, p)
    ELSE parse_expression_statement(ts, p)

parse_statement(ts, p) == statement_at(ts, skip_comments(ts, p))

\* the loop of parse: statements up to EOF
RECURSIVE parse_loop(_, _, _)
parse_loop(ts, p, statements) ==
    IF match(ts, skip_comments(ts, p), {"EOF"})
    THEN Parsed(Program(statements), skip_comments(ts, p))
    ELSE Then(parse_statement(ts, skip_comments(ts, p)), LAMBDA stmt :
             parse_loop(ts, stmt.pos, Append(statements, stmt.node)))

\* Parser(tokens).parse()
parse(ts) == parse_loop(ts, 1, <<>>)

(***************************************************************************)
(* The type checker (src/src/clearscript/typechecker.py).  The symbol      *)
(* table maps a declared name to the text of its type; the first           *)
(* TypeCheckError ends the check.                                          *)
(***************************************************************************)
Typed(t) == [type |-> t, exc |-> ""]

TypeCheckError(message) == [type |-> "", exc |-> message]

\* a raised TypeCheckError propagates; otherwise the check goes on with r
ThenTyped(r, Continue(_)) == IF r.exc # "" THEN TypeCheckError(r.exc) ELSE Continue(r)

Numeric == {"int", "float"}

types_compatible(target_type, value_type) ==
    \/ target_type = value_type
    \/ target_type = "float" /\ value_type = "int"

\* the type of a binary operation over operands of the types l and r
binary_type(operator, l, r) ==
    IF operator \in {"+", "-", "*", "/", "%"}
    THEN IF l \in Numeric /\ r \in Numeric
         THEN Typed(IF "float" \in {l, r} THEN "float" ELSE "int")
         ELSE TypeCheckError("Binary operation not supported")
    ELSE IF operator \in {"<", ">", "<=", ">=", "==", "!="}
    THEN IF l \in Numeric /\ r \in Numeric THEN Typed("int")
         ELSE TypeCheckError("Comparison not supported")
    ELSE IF operator \in {"&&", "||"} THEN Typed("int")
    ELSE Typed(l)

RECURSIVE infer_type(_, _)
infer_type(node, symbol_table) ==
    CASE node.kind = "Literal" -> Typed(node.literal_type)
      [] node.kind = "Identifier" ->
            IF node.name \notin DOMAIN symbol_table
            THEN TypeCheckError("Undefined variable")
            ELSE Typed(symbol_table[node.name])
      [] node.kind = "BinaryOp" ->
            ThenTyped(infer_type(node.left, symbol_table), LAMBDA l :
            ThenTyped(infer_type(node.right, symbol_table), LAMBDA r :
                binary_type(node.operator, l.type, r.type)))
      [] node.kind = "UnaryOp" ->
            ThenTyped(infer_type(node.operand, symbol_table), LAMBDA operand :
                IF node.operator \in {"++", "--"} /\ operand.type \notin Numeric
                THEN TypeCheckError("Unary operation requires numeric type")
                ELSE Typed(operand.type))
      [] node.kind = "ArrayAccess" ->
            ThenTyped(infer_type(node.array, symbol_table), LAMBDA array :
                IF array.type \notin {"int[]", "float[]"}
                THEN TypeCheckError("Cannot index into non-array type")
                ELSE ThenTyped(infer_type(node.index, symbol_table), LAMBDA index :
                    IF index.type # "int"
                    THEN TypeCheckError("Array index must be 'int'")
                    ELSE Typed(IF array.type = "int[]" THEN "int" ELSE "float")))
      [] node.kind = "MemberAccess" ->
            ThenTyped(infer_type(node.object, symbol_table), LAMBDA base :
                Typed("int"))
      [] OTHER -> Typed("int")

\* TypeChecker.__init__
NewChecker == [symbol_table |-> <<>>, exc |-> ""]

Checked(symbol_table) == [symbol_table |-> symbol_table, exc |-> ""]

CheckFailed(message) == [symbol_table |-> <<>>, exc |-> message]

\* self.symbol_table[name] = type
Register(symbol_table, name, type) ==
    [n \in DOMAIN symbol_table \cup {name} |->
        IF n = name THEN type ELSE symbol_table[n]]

\* infer_type for its exception alone; an absent node is not looked at
infer_only(node, symbol_table) ==
    IF node = None THEN Checked(symbol_table)
    ELSE IF infer_type(node, symbol_table).exc # ""
    THEN CheckFailed(infer_type(node, symbol_table).exc)
    ELSE Checked(symbol_table)

\* the elements of an array literal from the i-th on against the element type
RECURSIVE check_elements(_, _, _, _)
check_elements(elements, i, elem_type, symbol_table) ==
    IF i > Len(elements) THEN Checked(symbol_table)
    ELSE IF infer_type(elements[i], symbol_table).exc # ""
    THEN CheckFailed(infer_type(elements[i], symbol_table).exc)
    ELSE IF ~types_compatible(elem_type, infer_type(elements[i], symbol_table).type)
    THEN CheckFailed("Array element type does not match array type")
    ELSE check_elements(elements, i + 1, elem_type, symbol_table)

\* a value of the type the name was registered with, or the error message
check_value(value, target_type, symbol_table, message) ==
    IF infer_type(value, symbol_table).exc # ""
    THEN CheckFailed(infer_type(value, symbol_table).exc)
    ELSE IF ~types_compatible(target_type, infer_type(value, symbol_table).type)
    THEN CheckFailed(message)
    ELSE Checked(symbol_table)

typecheck_variable_declaration(node, symbol_table) ==
    IF node.value = None
    THEN Checked(Register(symbol_table, node.name, node.var_type))
    ELSE check_value(node.value, node.var_type,
                     Register(symbol_table, node.name, node.var_type),
                     "Cannot initialize variable")

typecheck_array_declaration(node, symbol_table) ==
    IF node.initializer.kind = "ArrayLiteral"
    THEN check_elements(node.initializer.elements, 1, node.elem_type,
             Register(symbol_table, node.name, node.elem_type \o "[]"))
    ELSE Checked(Register(symbol_table, node.name, node.elem_type \o "[]"))

typecheck_assignment(node, symbol_table) ==
    IF node.target \notin DOMAIN symbol_table
    THEN CheckFailed("Undefined variable")
    ELSE check_value(node.value, symbol_table[node.target], symbol_table,
                     "Cannot assign value")

RECURSIVE typecheck_visit(_, _)

\* for stmt in statements: self.visit(stmt), from the i-th statement on
RECURSIVE typecheck_all(_, _, _)
typecheck_all(statements, i, st) ==
    IF st.exc # "" \/ i > Len(statements) THEN st
    ELSE typecheck_all(statements, i + 1,
                       typecheck_visit(statements[i], st.symbol_table))

\* the checks of the parts of a statement one after the other
RECURSIVE typecheck_parts(_, _, _)
typecheck_parts(parts, i, st) ==
    IF st.exc # "" \/ i > Len(parts) THEN st
    ELSE typecheck_parts(parts, i + 1,
            IF parts[i].how = "visit"
            THEN typecheck_visit(parts[i].node, st.symbol_table)
            ELSE IF parts[i].how = "infer"
            THEN infer_only(parts[i].node, st.symbol_table)
            ELSE typecheck_all(parts[i].node, 1, st))

Part(how, node) == [how |-> how, node |-> node]

\* TypeChecker.visit
typecheck_visit(node, symbol_table) ==
    CASE node.kind = "Program" ->
            typecheck_all(node.statements, 1, Checked(symbol_table))
      [] node.kind = "VariableDeclaration" ->
            typecheck_variable_declaration(node, symbol_table)
      [] node.kind = "ArrayDeclaration" ->
            typecheck_array_declaration(node, symbol_table)
      [] node.kind = "Assignment" -> typecheck_assignment(node, symbol_table)
      [] node.kind = "IfStatement" ->
            typecheck_parts(<<Part("infer", node.condition),
                              Part("all", node.then_body),
                              Part("all", IF node.else_body.kind = "Block"
                                          THEN node.else_body.statements
                                          ELSE <<>>)>>,
                            1, Checked(symbol_table))
      [] node.kind = "WhileStatement" ->
            typecheck_parts(<<Part("infer", node.condition),
                              Part("all", node.body)>>, 1, Checked(symbol_table))
      [] node.kind = "ForLoop" ->
            typecheck_parts(<<Part(IF node.init = None THEN "infer" ELSE "visit",
                                   node.init),
                              Part("infer", node.condition),
                              Part("infer", node.increment),
                              Part("all", node.body)>>, 1, Checked(symbol_table))
      [] node.kind = "FunctionDeclaration" ->
            typecheck_all(node.body, 1, Checked(symbol_table))
      [] node.kind = "ExpressionStatement" ->
            infer_only(node.expression, symbol_table)
      [] OTHER -> Checked(symbol_table)

\* TypeChecker(ast).check(): the list of errors, at most one
check(program) ==
    IF typecheck_visit(program, <<>>).exc # ""
    THEN <<typecheck_visit(program, <<>>).exc>>
    ELSE <<>>

(***************************************************************************)
(* The front end as steps of the compiler: tokenize the source, parse the  *)
(* tokens; Generate then lowers the parsed Program.                        *)
(***************************************************************************)
Tokenize ==
    /\ phase = "source"
    /\ \E r \in {tokenize(source)} :
           /\ tokens' = IF r.exc = NoFailure THEN r.tokens ELSE <<>>
           /\ failure' = r.exc
           /\ phase' = IF r.exc = NoFailure THEN "lexed" ELSE "failed"
    /\ UNCHANGED <<source, ast, output, label_counter, labels, error,
                   pc, rstack, ostack, env, trace>>
    /\ UNCHANGED CliVars

Parse ==
    /\ phase = "lexed"
    /\ \E r \in {parse(tokens)} :
           /\ ast' = r.node
           /\ failure' = r.exc
           /\ phase' = IF r.exc = NoFailure THEN "parsed" ELSE "failed"
    /\ UNCHANGED <<source, tokens, output, label_counter, labels, error,
                   pc, rstack, ostack, env, trace>>
    /\ UNCHANGED CliVars

(***************************************************************************)
(* The command line (src/src/clearscript/cli.py).  A run of compile_file   *)
(* is a record r: the stages entered so far and whether each one returned, *)
(* the exception that left the try block, the values the stages handed on, *)
(* the file system and the two output streams, and the value returned.     *)
(***************************************************************************)
NewRun(files) ==
    [stages |-> <<>>, exc |-> "", result |-> "", source |-> <<>>,
     tokens |-> <<>>, ast |-> None, text |-> <<>>,
     fs |-> files, stdout |-> <<>>, stderr |-> <<>>]

\* control is still inside the try block: nothing raised, nothing returned
Going(r) == r.exc = "" /\ r.result = ""

\* a stage is entered
Enter(r, name) == [r EXCEPT !.stages = Append(@, [stage |-> name, ok |-> TRUE])]

\* the stage entered last raises
Raised(r, type) ==
    [r EXCEPT !.exc = type, !.stages[Len(r.stages)].ok = FALSE]

\* with open(input_path, 'r') as f: source = f.read()
read_source(r, input_path) ==
    IF input_path \notin DOMAIN r.fs
    THEN Raised(Enter(r, "read"), "FileNotFoundError")
    ELSE [Enter(r, "read") EXCEPT !.source = r.fs[input_path]]

tokens_of(r, lexed) ==
    IF lexed.exc # NoFailure THEN Raised(r, lexed.exc.type)
    ELSE [r EXCEPT !.tokens = lexed.tokens]

\* tokens = Lexer(source).tokenize()
lexical_analysis(r) ==
    IF ~Going(r) THEN r ELSE tokens_of(Enter(r, "tokenize"), tokenize(r.source))

ast_of(r, parsed) ==
    IF parsed.exc # NoFailure THEN Raised(r, parsed.exc.type)
    ELSE [r EXCEPT !.ast = parsed.node]

\* ast = Parser(tokens).parse()
parsing(r) ==
    IF ~Going(r) THEN r ELSE ast_of(Enter(r, "parse"), parse(r.tokens))

\* the names compile_file binds: its parameters and the targets of its
\* assignments, imports, with and except clauses
CompileFileLocals ==
    {"input_path", "output_path", "to_stdout", "f", "source", "lexer",
     "tokens", "parser", "ast", "TypeChecker", "checker", "errors", "error",
     "codegen", "output", "input_file", "e"}

\* the names bound at the top level of cli.py
ModuleGlobals ==
    {"sys", "argparse", "Path", "Lexer", "Parser", "CodeGenerator",
     "compile_file", "main"}

\* a name read in compile_file is looked up in its locals, then in the module
Resolves(name) == name \in CompileFileLocals \cup ModuleGlobals

errors_of(r, errors) ==
    IF errors # <<>>
    THEN [r EXCEPT !.stages[Len(r.stages)].ok = FALSE,
                   !.stderr = @ \o <<"Type checking failed">> \o errors,
                   !.result = "False"]
    ELSE r

\* if not args.no_typecheck: errors = TypeChecker(ast).check()
type_check(r) ==
    IF ~Going(r) THEN r
    ELSE IF ~Resolves("args") THEN [r EXCEPT !.exc = "NameError"]
    ELSE IF argv.no_typecheck THEN r
    ELSE errors_of(Enter(r, "typecheck"), check(r.ast))

text_of(r, st) ==
    IF st.err # "" THEN Raised(r, st.err)
    ELSE [r EXCEPT !.text = [i \in 1..Len(st.output) |-> st.output[i].text]]

\* output = CodeGenerator(ast).generate()
code_generation(r) ==
    IF ~Going(r) THEN r ELSE text_of(Enter(r, "generate"), generate(r.ast))

\* the position of the last point of a file name, 0 when it has none
LastPoint(name) ==
    IF \E i \in 1..Len(name) : name[i] = "."
    THEN CHOOSE i \in 1..Len(name) :
             name[i] = "." /\ \A j \in (i + 1)..Len(name) : name[j] # "."
    ELSE 0

\* Path(input_path).with_suffix('.ss'): a suffix starts at the last point of
\* the name, when that point is neither its first nor its last character
with_suffix(name) ==
    IF 1 < LastPoint(name) /\ LastPoint(name) < Len(name)
    THEN SubSeq(name, 1, LastPoint(name) - 1) \o <<".", "s", "s">>
    ELSE name \o <<".", "s", "s">>

\* write_output in a finally clause: the sink is written whatever happened
write_output_always(r, input_path, output_path, to_stdout) ==
    IF to_stdout
    THEN [Enter(r, "write") EXCEPT !.stdout = Append(@, r.text)]
    ELSE [Enter(r, "write") EXCEPT
             !.fs = ((IF output_path = <<>> THEN with_suffix(input_path)
                      ELSE output_path) :> r.text) @@ @]

\* print(output), or open(output_path, 'w') and f.write(output)
write_output(r, input_path, output_path, to_stdout) ==
    IF ~Going(r) THEN r
    ELSE IF to_stdout
    THEN [Enter(r, "write") EXCEPT !.stdout = Append(@, r.text),
                                   !.result = "True"]
    ELSE [Enter(r, "write") EXCEPT
             !.fs = ((IF output_path = <<>> THEN with_suffix(input_path)
                      ELSE output_path) :> r.text) @@ @,
             !.stdout = Append(@, <<"Successfully compiled">>),
             !.result = "True"]

\* except FileNotFoundError / except Exception
handle_exception(r) ==
    IF r.exc = "" THEN r
    ELSE IF r.exc = "FileNotFoundError"
    THEN [r EXCEPT !.stderr = Append(@, "Error: File not found"),
                   !.result = "False"]
    ELSE [r EXCEPT !.stderr = Append(@, "Compilation error: " \o r.exc),
                   !.result = "False"]

\* sys.exit has not been called
NotExited == status = <<>>

\* main(), command compile: compile_file(args.input, args.output, args.stdout)
\* stage after stage, then sys.exit(0 if success else 1)
CompileCommand ==
    /\ NotExited
    /\ argv.command = "compile"
    /\ \E read \in {read_source(NewRun(fs), argv.input)} :
       \E lexed \in {lexical_analysis(read)} :
       \E parsed \in {parsing(lexed)} :
       \E checked \in {type_check(parsed)} :
       \E generated \in {code_generation(checked)} :
       \E written \in {write_output(generated, argv.input, argv.output,
                                    argv.stdout)} :
       \E r \in {handle_exception(written)} :
           /\ fs' = r.fs
           /\ stdout' = r.stdout
           /\ stderr' = r.stderr
           /\ stages' = r.stages
           /\ status' = <<IF r.result = "True" THEN 0 ELSE 1>>
    /\ UNCHANGED <<argv, source, tokens, failure, ast, phase, output,
                   label_counter, labels, error, pc, rstack, ostack, env, trace>>

\* main(), command version
VersionCommand ==
    /\ NotExited
    /\ argv.command = "version"
    /\ stdout' = Append(stdout, <<"ClearScript v">>)
    /\ status' = <<0>>
    /\ UNCHANGED <<argv, fs, stderr, stages, source, tokens, failure, ast, phase,
                   output, label_counter, labels, error, pc, rstack, ostack, env,
                   trace>>

\* main(), no command: parser.print_help(), sys.exit(1)
NoCommand ==
    /\ NotExited
    /\ argv.command = ""
    /\ stdout' = Append(stdout, <<"usage">>)
    /\ status' = <<1>>
    /\ UNCHANGED <<argv, fs, stderr, stages, source, tokens, failure, ast, phase,
                   output, label_counter, labels, error, pc, rstack, ostack, env,
                   trace>>

\* no command line is running: the state of the other specifications
CliIdle ==
    /\ argv = [command |-> "", input |-> <<>>, output |-> <<>>,
               stdout |-> FALSE, no_typecheck |-> FALSE]
    /\ fs = <<>>
    /\ stdout = <<>>
    /\ stderr = <<>>
    /\ stages = <<>>
    /\ status = <<>>


(***************************************************************************)
(* The specification.                                                      *)
(***************************************************************************)
Init ==
    /\ source = <<>>
    /\ tokens = <<>>
    /\ failure = NoFailure
    /\ ast \in Programs
    /\ phase = "parsed"
    /\ output = <<>>
    /\ label_counter = 0
    /\ labels = <<>>
    /\ error = ""
    /\ pc = 0
    /\ rstack = <<>>
    /\ ostack = <<>>
    /\ env \in [{"x"} -> 0..MaxVal]
    /\ trace = <<>>
    /\ CliIdle

Next ==
    \/ Generate
    \/ Start
    \/ ExecInit
    \/ ExecSet
    \/ ExecInc
    \/ ExecDec
    \/ ExecGoto
    \/ ExecCallIf
    \/ ExecCall
    \/ ExecReturn
    \/ ExecPush
    \/ ExecPop
    \/ ExecLabel
    \/ ExecBlank
    \/ ExecExpr
    \/ Finish

Spec == Init /\ [][Next]_vars

(***************************************************************************)
(* The compiler run from source text: tokenize, parse, generate.  The      *)
(* sources are every text of at most MaxSrcLen characters over SrcAlphabet *)
(* and the expression statements of the families below.                    *)
(***************************************************************************)
SrcAlphabet == {"1", ".", "x", "\"", "\\", "/", "*", "@", " ", ";"}

ShortSources == UNION {[1..n -> SrcAlphabet] : n \in 0..MaxSrcLen}

\* 7  007  10  1.5  1.50  1.  0.25  12.0
NumberTexts ==
    {<<"7">>, <<"0", "0", "7">>, <<"1", "0">>, <<"1", ".", "5">>,
     <<"1", ".", "5", "0">>, <<"1", ".">>, <<"0", ".", "2", "5">>,
     <<"1", "2", ".", "0">>}

\* "hi"  'a'  "a\"b"  "a\\"
StringTexts ==
    {<<"\"", "h", "i", "\"">>, <<"'", "a", "'">>,
     <<"\"", "a", "\\", "\"", "b", "\"">>, <<"\"", "a", "\\", "\\", "\"">>}

\* a + 1  -a  a++  !a  a * b - 1  -(a + b)
CompositeTexts ==
    {<<"a", " ", "+", " ", "1">>, <<"-", "a">>, <<"a", "+", "+">>, <<"!", "a">>,
     <<"a", " ", "*", " ", "b", " ", "-", " ", "1">>,
     <<"-", "(", "a", " ", "+", " ", "b", ")">>}

\* x = <text>;
SetXTo(text) == <<"x", " ", "=", " ">> \o text \o <<";">>

RenderSources ==
    {SetXTo(t) : t \in NumberTexts \cup StringTexts \cup CompositeTexts \cup {<<"y">>}}

\* the left sides of L = 1;
PlainTargets == {<<"x">>, <<"a", "b">>}

OtherTargets ==
    {<<"a", ".", "b">>, <<"a", "[", "0", "]">>, <<"f", "(", ")">>, <<"1">>,
     <<"\"", "s", "\"">>, <<"a", " ", "+", " ", "b">>, <<"a", " ", "*", " ", "b">>,
     <<"a", " ", "<", " ", "b">>, <<"-", "x">>, <<"!", "x">>, <<"x", "+", "+">>,
     <<"(", "a", " ", "+", " ", "b", ")">>}

AssignTo(target) == target \o <<" ", "=", " ", "1", ";">>

AssignSources == {AssignTo(t) : t \in PlainTargets \cup OtherTargets}

\* the binary operators, as written
BinaryOperatorTexts ==
    {<<"|", "|">>, <<"&", "&">>, <<"=", "=">>, <<"!", "=">>, <<"<">>, <<">">>,
     <<"<", "=">>, <<">", "=">>, <<"+">>, <<"-">>, <<"*">>, <<"/">>}

\* a op1 b op2 c;
TwoOperators(op1, op2) ==
    <<"a", " ">> \o op1 \o <<" ", "b", " ">> \o op2 \o <<" ", "c", ";">>

\* -a op b;
PrefixThenOperator(op) == <<"-", "a", " ">> \o op \o <<" ", "b", ";">>

\* a + -b;  -a++;  !a[0];  -a.b;  --a++;  - -a;
UnarySources ==
    {<<"a", " ", "+", " ", "-", "b", ";">>,
     <<"-", "a", "+", "+", ";">>,
     <<"!", "a", "[", "0", "]", ";">>,
     <<"-", "a", ".", "b", ";">>,
     <<"-", "-", "a", "+", "+", ";">>,
     <<"-", " ", "-", "a", ";">>}

PrecedenceSources ==
    {TwoOperators(op1, op2) : op1 \in BinaryOperatorTexts, op2 \in BinaryOperatorTexts}
    \cup {PrefixThenOperator(op) : op \in BinaryOperatorTexts}
    \cup UnarySources

\* texts over several lines, with comments, and other expression forms
OtherSources ==
    {<<"x", ";", "\n", " ", "@">>,
     <<"x", ";", "\n", "\n", " ", " ", "\"", "a">>,
     <<"/", "/", " ", "c", " ", "\n", "x", ";">>,
     <<"/", "*", " ", "c", "\n", "*", "/", " ", "x", ";">>,
     <<"x", ";", "\n", "/", "*", " ", "c">>,
     <<"f", "(", "\"", "a", "\"", ",", " ", "x", ")", ";">>,
     <<"a", " ", "?", " ", "1", " ", ":", " ", "2", ";">>,
     <<"[", "1", ",", " ", "2", "]", ";">>,
     <<"x", " ", "=", " ", "a", "[", "i", "]", ";">>,
     <<"1", "(", ")", ";">>,
     <<"x", " ", "=", " ", "y", " ", "=", " ", "1", ";">>,
     <<"x", "_", "1", " ", "=", " ", "1", ".", "2", ".", "3", ";">>,
     <<"'", "a", "\\">>,
     <<"a", " ", "&", " ", "b", ";">>,
     <<"(", "x", ")", " ", "=", " ", "1", ";">>}

\* the engine operations with every argument count up to one more than the usual
EngineSources ==
    \* kill();
    { <<"k", "i", "l", "l", "(", ")", ";">>,
    \* kill(1);
      <<"k", "i", "l", "l", "(", "1", ")", ";">>,
    \* wait(1);
      <<"w", "a", "i", "t", "(", "1", ")", ";">>,
    \* wait();
      <<"w", "a", "i", "t", "(", ")", ";">>,
    \* wait(1,2);
      <<"w", "a", "i", "t", "(", "1", ",", "2", ")", ";">>,
    \* waitfor(x);
      <<"w", "a", "i", "t", "f", "o", "r", "(", "x", ")", ";">>,
    \* waitfor();
      <<"w", "a", "i", "t", "f", "o", "r", "(", ")", ";">>,
    \* push(1);
      <<"p", "u", "s", "h", "(", "1", ")", ";">>,
    \* push();
      <<"p", "u", "s", "h", "(", ")", ";">>,
    \* push(1,2);
      <<"p", "u", "s", "h", "(", "1", ",", "2", ")", ";">>,
    \* pop(x);
      <<"p", "o", "p", "(", "x", ")", ";">>,
    \* pop();
      <<"p", "o", "p", "(", ")", ";">>,
    \* pop(1);
      <<"p", "o", "p", "(", "1", ")", ";">>,
    \* pop(x,y);
      <<"p", "o", "p", "(", "x", ",", "y", ")", ";">>,
    \* peek(x);
      <<"p", "e", "e", "k", "(", "x", ")", ";">>,
    \* peek();
      <<"p", "e", "e", "k", "(", ")", ";">>,
    \* peek(x,y);
      <<"p", "e", "e", "k", "(", "x", ",", "y", ")", ";">>,
    \* thread(a);
      <<"t", "h", "r", "e", "a", "d", "(", "a", ")", ";">>,
    \* thread(a,1);
      <<"t", "h", "r", "e", "a", "d", "(", "a", ",", "1", ")", ";">>,
    \* thread(a,1,x);
      <<"t", "h", "r", "e", "a", "d", "(", "a", ",", "1", ",", "x", ")",
        ";">>,
    \* thread();
      <<"t", "h", "r", "e", "a", "d", "(", ")", ";">>,
    \* thread(1);
      <<"t", "h", "r", "e", "a", "d", "(", "1", ")", ";">>,
    \* set(x,1);
      <<"s", "e", "t", "(", "x", ",", "1", ")", ";">>,
    \* set(x);
      <<"s", "e", "t", "(", "x", ")", ";">>,
    \* set(x,1,2);
      <<"s", "e", "t", "(", "x", ",", "1", ",", "2", ")", ";">>,
    \* set();
      <<"s", "e", "t", "(", ")", ";">>,
    \* pop;
      <<"p", "o", "p", ";">>,
    \* push=1;
      <<"p", "u", "s", "h", "=", "1", ";">>,
    \* spawnbot(a,b);
      <<"s", "p", "a", "w", "n", "b", "o", "t", "(", "a", ",", "b", ")",
        ";">>,
    \* spawnbot(a,b,1);
      <<"s", "p", "a", "w", "n", "b", "o", "t", "(", "a", ",", "b", ",", "1",
        ")", ";">>,
    \* spawnbot(a,b,1,2);
      <<"s", "p", "a", "w", "n", "b", "o", "t", "(", "a", ",", "b", ",", "1",
        ",", "2", ")", ";">>,
    \* spawnbot(a);
      <<"s", "p", "a", "w", "n", "b", "o", "t", "(", "a", ")", ";">>,
    \* spawnbot();
      <<"s", "p", "a", "w", "n", "b", "o", "t", "(", ")", ";">>,
    \* moveto(a,b);
      <<"m", "o", "v", "e", "t", "o", "(", "a", ",", "b", ")", ";">>,
    \* moveto(a);
      <<"m", "o", "v", "e", "t", "o", "(", "a", ")", ";">>,
    \* moveto();
      <<"m", "o", "v", "e", "t", "o", "(", ")", ";">>,
    \* moveto(a,b,c);
      <<"m", "o", "v", "e", "t", "o", "(", "a", ",", "b", ",", "c", ")",
        ";">>,
    \* moveto(a b);
      <<"m", "o", "v", "e", "t", "o", "(", "a", " ", "b", ")", ";">>,
    \* animate(a,b,1);
      <<"a", "n", "i", "m", "a", "t", "e", "(", "a", ",", "b", ",", "1", ")",
        ";">>,
    \* animate(a,b);
      <<"a", "n", "i", "m", "a", "t", "e", "(", "a", ",", "b", ")", ";">>,
    \* animate(a);
      <<"a", "n", "i", "m", "a", "t", "e", "(", "a", ")", ";">>,
    \* animate();
      <<"a", "n", "i", "m", "a", "t", "e", "(", ")", ";">>,
    \* animate(a,b,1,2);
      <<"a", "n", "i", "m", "a", "t", "e", "(", "a", ",", "b", ",", "1", ",",
        "2", ")", ";">>,
    \* delete(a);
      <<"d", "e", "l", "e", "t", "e", "(", "a", ")", ";">>,
    \* delete();
      <<"d", "e", "l", "e", "t", "e", "(", ")", ";">>,
    \* delete(a,b);
      <<"d", "e", "l", "e", "t", "e", "(", "a", ",", "b", ")", ";">>,
    \* delete(a)
      <<"d", "e", "l", "e", "t", "e", "(", "a", ")">>,
    \* delete a;
      <<"d", "e", "l", "e", "t", "e", " ", "a", ";">> }

\* raw blocks
RawSources ==
    \* raw { SET x 1 }
    { <<"r", "a", "w", " ", "{", " ", "S", "E", "T", " ", "x", " ", "1", " ",
        "}">>,
    \* raw{SET  x   1}
      <<"r", "a", "w", "{", "S", "E", "T", " ", " ", "x", " ", " ", " ", "1",
        "}">>,
    \* raw { SET x "a" }
      <<"r", "a", "w", " ", "{", " ", "S", "E", "T", " ", "x", " ", "\"",
        "a", "\"", " ", "}">>,
    \* raw { a { b } c }
      <<"r", "a", "w", " ", "{", " ", "a", " ", "{", " ", "b", " ", "}", " ",
        "c", " ", "}">>,
    \* raw { }
      <<"r", "a", "w", " ", "{", " ", "}">>,
    \* raw { a
      <<"r", "a", "w", " ", "{", " ", "a">>,
    \* raw { x 007 }
      <<"r", "a", "w", " ", "{", " ", "x", " ", "0", "0", "7", " ", "}">>,
    \* raw { 1.50 }
      <<"r", "a", "w", " ", "{", " ", "1", ".", "5", "0", " ", "}">>,
    \* raw { GOTO a {x == 1} } x = 1;
      <<"r", "a", "w", " ", "{", " ", "G", "O", "T", "O", " ", "a", " ", "{",
        "x", " ", "=", "=", " ", "1", "}", " ", "}", " ", "x", " ", "=", " ",
        "1", ";">>,
    \* raw { a // c\n b }
      <<"r", "a", "w", " ", "{", " ", "a", " ", "/", "/", " ", "c", "\n",
        " ", "b", " ", "}">>,
    \* raw { a /* c */ b }
      <<"r", "a", "w", " ", "{", " ", "a", " ", "/", "*", " ", "c", " ", "*",
        "/", " ", "b", " ", "}">>,
    \* raw { "}" }
      <<"r", "a", "w", " ", "{", " ", "\"", "}", "\"", " ", "}">>,
    \* raw x
      <<"r", "a", "w", " ", "x">>,
    \* raw { x = y; }
      <<"r", "a", "w", " ", "{", " ", "x", " ", "=", " ", "y", ";", " ",
        "}">>,
    \* raw { if }
      <<"r", "a", "w", " ", "{", " ", "i", "f", " ", "}">>,
    \* raw { x+1 }
      <<"r", "a", "w", " ", "{", " ", "x", "+", "1", " ", "}">>,
    \* raw { IF }
      <<"r", "a", "w", " ", "{", " ", "I", "F", " ", "}">> }

\* comments in every position of a statement
CommentSources ==
    \* x = 1; // c
    { <<"x", " ", "=", " ", "1", ";", " ", "/", "/", " ", "c">>,
    \* // c\nx = 1;
      <<"/", "/", " ", "c", "\n", "x", " ", "=", " ", "1", ";">>,
    \* /* c */ x = 1;
      <<"/", "*", " ", "c", " ", "*", "/", " ", "x", " ", "=", " ", "1",
        ";">>,
    \* x = /* c */ 1;
      <<"x", " ", "=", " ", "/", "*", " ", "c", " ", "*", "/", " ", "1",
        ";">>,
    \* x /* c */ = 1;
      <<"x", " ", "/", "*", " ", "c", " ", "*", "/", " ", "=", " ", "1",
        ";">>,
    \* x = 1 /* c */;
      <<"x", " ", "=", " ", "1", " ", "/", "*", " ", "c", " ", "*", "/",
        ";">>,
    \* f(/* c */);
      <<"f", "(", "/", "*", " ", "c", " ", "*", "/", ")", ";">>,
    \* f(1, /* c */ 2);
      <<"f", "(", "1", ",", " ", "/", "*", " ", "c", " ", "*", "/", " ", "2",
        ")", ";">>,
    \* if (x) { x = 1; } /* c */ else { x = 2; }
      <<"i", "f", " ", "(", "x", ")", " ", "{", " ", "x", " ", "=", " ", "1",
        ";", " ", "}", " ", "/", "*", " ", "c", " ", "*", "/", " ", "e", "l",
        "s", "e", " ", "{", " ", "x", " ", "=", " ", "2", ";", " ", "}">>,
    \* if (x) { /* c */ x = 1; }
      <<"i", "f", " ", "(", "x", ")", " ", "{", " ", "/", "*", " ", "c", " ",
        "*", "/", " ", "x", " ", "=", " ", "1", ";", " ", "}">>,
    \* if (x) { x = 1; /* c */ }
      <<"i", "f", " ", "(", "x", ")", " ", "{", " ", "x", " ", "=", " ", "1",
        ";", " ", "/", "*", " ", "c", " ", "*", "/", " ", "}">>,
    \* if /* c */ (x) { x = 1; }
      <<"i", "f", " ", "/", "*", " ", "c", " ", "*", "/", " ", "(", "x", ")",
        " ", "{", " ", "x", " ", "=", " ", "1", ";", " ", "}">>,
    \* if (x) /* c */ { x = 1; }
      <<"i", "f", " ", "(", "x", ")", " ", "/", "*", " ", "c", " ", "*", "/",
        " ", "{", " ", "x", " ", "=", " ", "1", ";", " ", "}">>,
    \* switch (x) { /* c */ case 1: x = 1; }
      <<"s", "w", "i", "t", "c", "h", " ", "(", "x", ")", " ", "{", " ", "/",
        "*", " ", "c", " ", "*", "/", " ", "c", "a", "s", "e", " ", "1", ":",
        " ", "x", " ", "=", " ", "1", ";", " ", "}">>,
    \* switch (x) { case 1: /* c */ x = 1; break; default: x = 2; }
      <<"s", "w", "i", "t", "c", "h", " ", "(", "x", ")", " ", "{", " ", "c",
        "a", "s", "e", " ", "1", ":", " ", "/", "*", " ", "c", " ", "*", "/",
        " ", "x", " ", "=", " ", "1", ";", " ", "b", "r", "e", "a", "k", ";",
        " ", "d", "e", "f", "a", "u", "l", "t", ":", " ", "x", " ", "=", " ",
        "2", ";", " ", "}">>,
    \* switch (x) { case 1: x = 1; break; /* c */ default: x = 2; }
      <<"s", "w", "i", "t", "c", "h", " ", "(", "x", ")", " ", "{", " ", "c",
        "a", "s", "e", " ", "1", ":", " ", "x", " ", "=", " ", "1", ";", " ",
        "b", "r", "e", "a", "k", ";", " ", "/", "*", " ", "c", " ", "*", "/",
        " ", "d", "e", "f", "a", "u", "l", "t", ":", " ", "x", " ", "=", " ",
        "2", ";", " ", "}">>,
    \* switch (x) { case 1: x = 1; break; default: x = 2; /* c */ }
      <<"s", "w", "i", "t", "c", "h", " ", "(", "x", ")", " ", "{", " ", "c",
        "a", "s", "e", " ", "1", ":", " ", "x", " ", "=", " ", "1", ";", " ",
        "b", "r", "e", "a", "k", ";", " ", "d", "e", "f", "a", "u", "l", "t",
        ":", " ", "x", " ", "=", " ", "2", ";", " ", "/", "*", " ", "c", " ",
        "*", "/", " ", "}">>,
    \* function f(/* c */) { }
      <<"f", "u", "n", "c", "t", "i", "o", "n", " ", "f", "(", "/", "*", " ",
        "c", " ", "*", "/", ")", " ", "{", " ", "}">>,
    \* function f() { /* c */ }
      <<"f", "u", "n", "c", "t", "i", "o", "n", " ", "f", "(", ")", " ", "{",
        " ", "/", "*", " ", "c", " ", "*", "/", " ", "}">>,
    \* function /* c */ f() { }
      <<"f", "u", "n", "c", "t", "i", "o", "n", " ", "/", "*", " ", "c", " ",
        "*", "/", " ", "f", "(", ")", " ", "{", " ", "}">>,
    \* class A { /* c */ int x; }
      <<"c", "l", "a", "s", "s", " ", "A", " ", "{", " ", "/", "*", " ", "c",
        " ", "*", "/", " ", "i", "n", "t", " ", "x", ";", " ", "}">>,
    \* struct S { int x; /* c */ }
      <<"s", "t", "r", "u", "c", "t", " ", "S", " ", "{", " ", "i", "n", "t",
        " ", "x", ";", " ", "/", "*", " ", "c", " ", "*", "/", " ", "}">>,
    \* int /* c */ x;
      <<"i", "n", "t", " ", "/", "*", " ", "c", " ", "*", "/", " ", "x",
        ";">>,
    \* goto /* c */ a;
      <<"g", "o", "t", "o", " ", "/", "*", " ", "c", " ", "*", "/", " ", "a",
        ";">>,
    \* while (x) { // c\n x = 1; }
      <<"w", "h", "i", "l", "e", " ", "(", "x", ")", " ", "{", " ", "/", "/",
        " ", "c", "\n", " ", "x", " ", "=", " ", "1", ";", " ", "}">>,
    \* /* c */
      <<"/", "*", " ", "c", " ", "*", "/">>,
    \* // c
      <<"/", "/", " ", "c">>,
    \* x = 1; /* c */ x = 2;
      <<"x", " ", "=", " ", "1", ";", " ", "/", "*", " ", "c", " ", "*", "/",
        " ", "x", " ", "=", " ", "2", ";">>,
    \* raw /* c */ { a }
      <<"r", "a", "w", " ", "/", "*", " ", "c", " ", "*", "/", " ", "{", " ",
        "a", " ", "}">> }

\* every statement form, whole and cut short
StatementSources ==
    \* const int x = 1;
    { <<"c", "o", "n", "s", "t", " ", "i", "n", "t", " ", "x", " ", "=", " ",
        "1", ";">>,
    \* const x = 1;
      <<"c", "o", "n", "s", "t", " ", "x", " ", "=", " ", "1", ";">>,
    \* const int x;
      <<"c", "o", "n", "s", "t", " ", "i", "n", "t", " ", "x", ";">>,
    \* int x;
      <<"i", "n", "t", " ", "x", ";">>,
    \* int x = 1;
      <<"i", "n", "t", " ", "x", " ", "=", " ", "1", ";">>,
    \* float y = 1.5;
      <<"f", "l", "o", "a", "t", " ", "y", " ", "=", " ", "1", ".", "5",
        ";">>,
    \* int[] a;
      <<"i", "n", "t", "[", "]", " ", "a", ";">>,
    \* int[] a = [1];
      <<"i", "n", "t", "[", "]", " ", "a", " ", "=", " ", "[", "1", "]",
        ";">>,
    \* int x = [1];
      <<"i", "n", "t", " ", "x", " ", "=", " ", "[", "1", "]", ";">>,
    \* [1];
      <<"[", "1", "]", ";">>,
    \* int[ a;
      <<"i", "n", "t", "[", " ", "a", ";">>,
    \* int 1;
      <<"i", "n", "t", " ", "1", ";">>,
    \* int x = ;
      <<"i", "n", "t", " ", "x", " ", "=", " ", ";">>,
    \* int x
      <<"i", "n", "t", " ", "x">>,
    \* function f() { }
      <<"f", "u", "n", "c", "t", "i", "o", "n", " ", "f", "(", ")", " ", "{",
        " ", "}">>,
    \* function f(a) { x = a; }
      <<"f", "u", "n", "c", "t", "i", "o", "n", " ", "f", "(", "a", ")", " ",
        "{", " ", "x", " ", "=", " ", "a", ";", " ", "}">>,
    \* function f(a, b) { return; }
      <<"f", "u", "n", "c", "t", "i", "o", "n", " ", "f", "(", "a", ",", " ",
        "b", ")", " ", "{", " ", "r", "e", "t", "u", "r", "n", ";", " ",
        "}">>,
    \* function f(a b) { }
      <<"f", "u", "n", "c", "t", "i", "o", "n", " ", "f", "(", "a", " ", "b",
        ")", " ", "{", " ", "}">>,
    \* function f(a
      <<"f", "u", "n", "c", "t", "i", "o", "n", " ", "f", "(", "a">>,
    \* function f() {
      <<"f", "u", "n", "c", "t", "i", "o", "n", " ", "f", "(", ")", " ",
        "{">>,
    \* function () { }
      <<"f", "u", "n", "c", "t", "i", "o", "n", " ", "(", ")", " ", "{", " ",
        "}">>,
    \* function f { }
      <<"f", "u", "n", "c", "t", "i", "o", "n", " ", "f", " ", "{", " ",
        "}">>,
    \* class A { }
      <<"c", "l", "a", "s", "s", " ", "A", " ", "{", " ", "}">>,
    \* class A { int x; }
      <<"c", "l", "a", "s", "s", " ", "A", " ", "{", " ", "i", "n", "t", " ",
        "x", ";", " ", "}">>,
    \* class A { method m() { } }
      <<"c", "l", "a", "s", "s", " ", "A", " ", "{", " ", "m", "e", "t", "h",
        "o", "d", " ", "m", "(", ")", " ", "{", " ", "}", " ", "}">>,
    \* class A { method m(a, b) { x = 1; } int y; }
      <<"c", "l", "a", "s", "s", " ", "A", " ", "{", " ", "m", "e", "t", "h",
        "o", "d", " ", "m", "(", "a", ",", " ", "b", ")", " ", "{", " ", "x",
        " ", "=", " ", "1", ";", " ", "}", " ", "i", "n", "t", " ", "y", ";",
        " ", "}">>,
    \* class A { x = 1; }
      <<"c", "l", "a", "s", "s", " ", "A", " ", "{", " ", "x", " ", "=", " ",
        "1", ";", " ", "}">>,
    \* class A {
      <<"c", "l", "a", "s", "s", " ", "A", " ", "{">>,
    \* class { }
      <<"c", "l", "a", "s", "s", " ", "{", " ", "}">>,
    \* class A { method m( }
      <<"c", "l", "a", "s", "s", " ", "A", " ", "{", " ", "m", "e", "t", "h",
        "o", "d", " ", "m", "(", " ", "}">>,
    \* struct S { }
      <<"s", "t", "r", "u", "c", "t", " ", "S", " ", "{", " ", "}">>,
    \* struct S { int x; float y; }
      <<"s", "t", "r", "u", "c", "t", " ", "S", " ", "{", " ", "i", "n", "t",
        " ", "x", ";", " ", "f", "l", "o", "a", "t", " ", "y", ";", " ",
        "}">>,
    \* struct S { x }
      <<"s", "t", "r", "u", "c", "t", " ", "S", " ", "{", " ", "x", " ",
        "}">>,
    \* struct S {
      <<"s", "t", "r", "u", "c", "t", " ", "S", " ", "{">>,
    \* struct { }
      <<"s", "t", "r", "u", "c", "t", " ", "{", " ", "}">>,
    \* label: a
      <<"l", "a", "b", "e", "l", ":", " ", "a">>,
    \* label: a x = 1;
      <<"l", "a", "b", "e", "l", ":", " ", "a", " ", "x", " ", "=", " ", "1",
        ";">>,
    \* label a
      <<"l", "a", "b", "e", "l", " ", "a">>,
    \* label: 1
      <<"l", "a", "b", "e", "l", ":", " ", "1">>,
    \* goto a;
      <<"g", "o", "t", "o", " ", "a", ";">>,
    \* goto a if (x);
      <<"g", "o", "t", "o", " ", "a", " ", "i", "f", " ", "(", "x", ")",
        ";">>,
    \* goto a if (x == 1);
      <<"g", "o", "t", "o", " ", "a", " ", "i", "f", " ", "(", "x", " ", "=",
        "=", " ", "1", ")", ";">>,
    \* goto a if x;
      <<"g", "o", "t", "o", " ", "a", " ", "i", "f", " ", "x", ";">>,
    \* goto a
      <<"g", "o", "t", "o", " ", "a">>,
    \* goto 1;
      <<"g", "o", "t", "o", " ", "1", ";">>,
    \* goto a if (x;
      <<"g", "o", "t", "o", " ", "a", " ", "i", "f", " ", "(", "x", ";">>,
    \* if (x) { x = 1; }
      <<"i", "f", " ", "(", "x", ")", " ", "{", " ", "x", " ", "=", " ", "1",
        ";", " ", "}">>,
    \* if (x) { x = 1; } else { x = 2; }
      <<"i", "f", " ", "(", "x", ")", " ", "{", " ", "x", " ", "=", " ", "1",
        ";", " ", "}", " ", "e", "l", "s", "e", " ", "{", " ", "x", " ", "=",
        " ", "2", ";", " ", "}">>,
    \* if (x) { } else { }
      <<"i", "f", " ", "(", "x", ")", " ", "{", " ", "}", " ", "e", "l", "s",
        "e", " ", "{", " ", "}">>,
    \* if (x) { x = 1; } else x = 2;
      <<"i", "f", " ", "(", "x", ")", " ", "{", " ", "x", " ", "=", " ", "1",
        ";", " ", "}", " ", "e", "l", "s", "e", " ", "x", " ", "=", " ", "2",
        ";">>,
    \* if x { }
      <<"i", "f", " ", "x", " ", "{", " ", "}">>,
    \* if (x) x = 1;
      <<"i", "f", " ", "(", "x", ")", " ", "x", " ", "=", " ", "1", ";">>,
    \* if (x) {
      <<"i", "f", " ", "(", "x", ")", " ", "{">>,
    \* if (x { }
      <<"i", "f", " ", "(", "x", " ", "{", " ", "}">>,
    \* if (x) { x = 1; } else {
      <<"i", "f", " ", "(", "x", ")", " ", "{", " ", "x", " ", "=", " ", "1",
        ";", " ", "}", " ", "e", "l", "s", "e", " ", "{">>,
    \* if (x) { if (x) { x = 1; } }
      <<"i", "f", " ", "(", "x", ")", " ", "{", " ", "i", "f", " ", "(", "x",
        ")", " ", "{", " ", "x", " ", "=", " ", "1", ";", " ", "}", " ",
        "}">>,
    \* while (x) { x = 1; }
      <<"w", "h", "i", "l", "e", " ", "(", "x", ")", " ", "{", " ", "x", " ",
        "=", " ", "1", ";", " ", "}">>,
    \* while (x) { }
      <<"w", "h", "i", "l", "e", " ", "(", "x", ")", " ", "{", " ", "}">>,
    \* while (x) {
      <<"w", "h", "i", "l", "e", " ", "(", "x", ")", " ", "{">>,
    \* while x { }
      <<"w", "h", "i", "l", "e", " ", "x", " ", "{", " ", "}">>,
    \* while (x) x = 1;
      <<"w", "h", "i", "l", "e", " ", "(", "x", ")", " ", "x", " ", "=", " ",
        "1", ";">>,
    \* for (;;) { }
      <<"f", "o", "r", " ", "(", ";", ";", ")", " ", "{", " ", "}">>,
    \* for (int i = 0; i < 2; i++) { x = i; }
      <<"f", "o", "r", " ", "(", "i", "n", "t", " ", "i", " ", "=", " ", "0",
        ";", " ", "i", " ", "<", " ", "2", ";", " ", "i", "+", "+", ")", " ",
        "{", " ", "x", " ", "=", " ", "i", ";", " ", "}">>,
    \* for (i = 0; i < 2; i = i + 1) { }
      <<"f", "o", "r", " ", "(", "i", " ", "=", " ", "0", ";", " ", "i", " ",
        "<", " ", "2", ";", " ", "i", " ", "=", " ", "i", " ", "+", " ", "1",
        ")", " ", "{", " ", "}">>,
    \* for (int i; ; ) { }
      <<"f", "o", "r", " ", "(", "i", "n", "t", " ", "i", ";", " ", ";", " ",
        ")", " ", "{", " ", "}">>,
    \* for (int i = 0) { }
      <<"f", "o", "r", " ", "(", "i", "n", "t", " ", "i", " ", "=", " ", "0",
        ")", " ", "{", " ", "}">>,
    \* for (;;) {
      <<"f", "o", "r", " ", "(", ";", ";", ")", " ", "{">>,
    \* for (;;
      <<"f", "o", "r", " ", "(", ";", ";">>,
    \* for (int 1;;) { }
      <<"f", "o", "r", " ", "(", "i", "n", "t", " ", "1", ";", ";", ")", " ",
        "{", " ", "}">>,
    \* for (;x) { }
      <<"f", "o", "r", " ", "(", ";", "x", ")", " ", "{", " ", "}">>,
    \* for (;;x { }
      <<"f", "o", "r", " ", "(", ";", ";", "x", " ", "{", " ", "}">>,
    \* switch (x) { }
      <<"s", "w", "i", "t", "c", "h", " ", "(", "x", ")", " ", "{", " ",
        "}">>,
    \* switch (x) { case 1: x = 1; }
      <<"s", "w", "i", "t", "c", "h", " ", "(", "x", ")", " ", "{", " ", "c",
        "a", "s", "e", " ", "1", ":", " ", "x", " ", "=", " ", "1", ";", " ",
        "}">>,
    \* switch (x) { case 1: x = 1; break; }
      <<"s", "w", "i", "t", "c", "h", " ", "(", "x", ")", " ", "{", " ", "c",
        "a", "s", "e", " ", "1", ":", " ", "x", " ", "=", " ", "1", ";", " ",
        "b", "r", "e", "a", "k", ";", " ", "}">>,
    \* switch (x) { case 1: x = 1; break; default: x = 2; }
      <<"s", "w", "i", "t", "c", "h", " ", "(", "x", ")", " ", "{", " ", "c",
        "a", "s", "e", " ", "1", ":", " ", "x", " ", "=", " ", "1", ";", " ",
        "b", "r", "e", "a", "k", ";", " ", "d", "e", "f", "a", "u", "l", "t",
        ":", " ", "x", " ", "=", " ", "2", ";", " ", "}">>,
    \* switch (x) { default: x = 2; }
      <<"s", "w", "i", "t", "c", "h", " ", "(", "x", ")", " ", "{", " ", "d",
        "e", "f", "a", "u", "l", "t", ":", " ", "x", " ", "=", " ", "2", ";",
        " ", "}">>,
    \* switch (x) { default: x = 2; break; }
      <<"s", "w", "i", "t", "c", "h", " ", "(", "x", ")", " ", "{", " ", "d",
        "e", "f", "a", "u", "l", "t", ":", " ", "x", " ", "=", " ", "2", ";",
        " ", "b", "r", "e", "a", "k", ";", " ", "}">>,
    \* switch (x) { case 1: case 2: x = 1; }
      <<"s", "w", "i", "t", "c", "h", " ", "(", "x", ")", " ", "{", " ", "c",
        "a", "s", "e", " ", "1", ":", " ", "c", "a", "s", "e", " ", "2", ":",
        " ", "x", " ", "=", " ", "1", ";", " ", "}">>,
    \* switch (x) { case 1: x = 1; break; x = 2; }
      <<"s", "w", "i", "t", "c", "h", " ", "(", "x", ")", " ", "{", " ", "c",
        "a", "s", "e", " ", "1", ":", " ", "x", " ", "=", " ", "1", ";", " ",
        "b", "r", "e", "a", "k", ";", " ", "x", " ", "=", " ", "2", ";", " ",
        "}">>,
    \* switch (x) { default: x = 1; break; case 1: x = 2; }
      <<"s", "w", "i", "t", "c", "h", " ", "(", "x", ")", " ", "{", " ", "d",
        "e", "f", "a", "u", "l", "t", ":", " ", "x", " ", "=", " ", "1", ";",
        " ", "b", "r", "e", "a", "k", ";", " ", "c", "a", "s", "e", " ", "1",
        ":", " ", "x", " ", "=", " ", "2", ";", " ", "}">>,
    \* switch (x) { default: x = 1; case 1: x = 2; }
      <<"s", "w", "i", "t", "c", "h", " ", "(", "x", ")", " ", "{", " ", "d",
        "e", "f", "a", "u", "l", "t", ":", " ", "x", " ", "=", " ", "1", ";",
        " ", "c", "a", "s", "e", " ", "1", ":", " ", "x", " ", "=", " ", "2",
        ";", " ", "}">>,
    \* switch (x) { case 1 x = 1; }
      <<"s", "w", "i", "t", "c", "h", " ", "(", "x", ")", " ", "{", " ", "c",
        "a", "s", "e", " ", "1", " ", "x", " ", "=", " ", "1", ";", " ",
        "}">>,
    \* switch (x) { case 1: x = 1;
      <<"s", "w", "i", "t", "c", "h", " ", "(", "x", ")", " ", "{", " ", "c",
        "a", "s", "e", " ", "1", ":", " ", "x", " ", "=", " ", "1", ";">>,
    \* switch (x) { x = 1; }
      <<"s", "w", "i", "t", "c", "h", " ", "(", "x", ")", " ", "{", " ", "x",
        " ", "=", " ", "1", ";", " ", "}">>,
    \* switch x { }
      <<"s", "w", "i", "t", "c", "h", " ", "x", " ", "{", " ", "}">>,
    \* switch (x) { case 1: break }
      <<"s", "w", "i", "t", "c", "h", " ", "(", "x", ")", " ", "{", " ", "c",
        "a", "s", "e", " ", "1", ":", " ", "b", "r", "e", "a", "k", " ",
        "}">>,
    \* switch (x) { default x = 1; }
      <<"s", "w", "i", "t", "c", "h", " ", "(", "x", ")", " ", "{", " ", "d",
        "e", "f", "a", "u", "l", "t", " ", "x", " ", "=", " ", "1", ";", " ",
        "}">>,
    \* return;
      <<"r", "e", "t", "u", "r", "n", ";">>,
    \* return
      <<"r", "e", "t", "u", "r", "n">>,
    \* return 1;
      <<"r", "e", "t", "u", "r", "n", " ", "1", ";">>,
    \* function f() { if (x) { return; } x = 1; } f();
      <<"f", "u", "n", "c", "t", "i", "o", "n", " ", "f", "(", ")", " ", "{",
        " ", "i", "f", " ", "(", "x", ")", " ", "{", " ", "r", "e", "t", "u",
        "r", "n", ";", " ", "}", " ", "x", " ", "=", " ", "1", ";", " ", "}",
        " ", "f", "(", ")", ";">>,
    \* x = 1; }
      <<"x", " ", "=", " ", "1", ";", " ", "}">>,
    \* { x = 1; }
      <<"{", " ", "x", " ", "=", " ", "1", ";", " ", "}">>,
    \* else { }
      <<"e", "l", "s", "e", " ", "{", " ", "}">>,
    \* break;
      <<"b", "r", "e", "a", "k", ";">>,
    \* case 1:
      <<"c", "a", "s", "e", " ", "1", ":">>,
    \* method m() { }
      <<"m", "e", "t", "h", "o", "d", " ", "m", "(", ")", " ", "{", " ",
        "}">>,
    \* int x = 1; function f() { x = 2; } f();
      <<"i", "n", "t", " ", "x", " ", "=", " ", "1", ";", " ", "f", "u", "n",
        "c", "t", "i", "o", "n", " ", "f", "(", ")", " ", "{", " ", "x", " ",
        "=", " ", "2", ";", " ", "}", " ", "f", "(", ")", ";">>,
    \* function f() { x = 1; }  function g() { f(); }
      <<"f", "u", "n", "c", "t", "i", "o", "n", " ", "f", "(", ")", " ", "{",
        " ", "x", " ", "=", " ", "1", ";", " ", "}", " ", " ", "f", "u", "n",
        "c", "t", "i", "o", "n", " ", "g", "(", ")", " ", "{", " ", "f", "(",
        ")", ";", " ", "}">> }

\* declarations and uses the type checker tells apart
TypeSources ==
    \* int x = 1; x = 2;
    { <<"i", "n", "t", " ", "x", " ", "=", " ", "1", ";", " ", "x", " ", "=",
        " ", "2", ";">>,
    \* int x = 1.5;
      <<"i", "n", "t", " ", "x", " ", "=", " ", "1", ".", "5", ";">>,
    \* float y = 1;
      <<"f", "l", "o", "a", "t", " ", "y", " ", "=", " ", "1", ";">>,
    \* float y = 1.5; y = y + 1;
      <<"f", "l", "o", "a", "t", " ", "y", " ", "=", " ", "1", ".", "5", ";",
        " ", "y", " ", "=", " ", "y", " ", "+", " ", "1", ";">>,
    \* int x = "a";
      <<"i", "n", "t", " ", "x", " ", "=", " ", "\"", "a", "\"", ";">>,
    \* x + 1;
      <<"x", " ", "+", " ", "1", ";">>,
    \* int x; x + 1;
      <<"i", "n", "t", " ", "x", ";", " ", "x", " ", "+", " ", "1", ";">>,
    \* int x; x + 1.5;
      <<"i", "n", "t", " ", "x", ";", " ", "x", " ", "+", " ", "1", ".", "5",
        ";">>,
    \* int x; x++;
      <<"i", "n", "t", " ", "x", ";", " ", "x", "+", "+", ";">>,
    \* y++;
      <<"y", "+", "+", ";">>,
    \* int x; if (x < 1) { x = 1; }
      <<"i", "n", "t", " ", "x", ";", " ", "i", "f", " ", "(", "x", " ", "<",
        " ", "1", ")", " ", "{", " ", "x", " ", "=", " ", "1", ";", " ",
        "}">>,
    \* if (z) { }
      <<"i", "f", " ", "(", "z", ")", " ", "{", " ", "}">>,
    \* int x; while (x == y) { }
      <<"i", "n", "t", " ", "x", ";", " ", "w", "h", "i", "l", "e", " ", "(",
        "x", " ", "=", "=", " ", "y", ")", " ", "{", " ", "}">>,
    \* int x; while (x) { z; }
      <<"i", "n", "t", " ", "x", ";", " ", "w", "h", "i", "l", "e", " ", "(",
        "x", ")", " ", "{", " ", "z", ";", " ", "}">>,
    \* int[] a = [1, 2];
      <<"i", "n", "t", "[", "]", " ", "a", " ", "=", " ", "[", "1", ",", " ",
        "2", "]", ";">>,
    \* int[] a = [1, 1.5];
      <<"i", "n", "t", "[", "]", " ", "a", " ", "=", " ", "[", "1", ",", " ",
        "1", ".", "5", "]", ";">>,
    \* float[] a = [1, 1.5];
      <<"f", "l", "o", "a", "t", "[", "]", " ", "a", " ", "=", " ", "[", "1",
        ",", " ", "1", ".", "5", "]", ";">>,
    \* int[] a = [1]; a[0];
      <<"i", "n", "t", "[", "]", " ", "a", " ", "=", " ", "[", "1", "]", ";",
        " ", "a", "[", "0", "]", ";">>,
    \* int[] a = [1]; a[1.5];
      <<"i", "n", "t", "[", "]", " ", "a", " ", "=", " ", "[", "1", "]", ";",
        " ", "a", "[", "1", ".", "5", "]", ";">>,
    \* int x; x[0];
      <<"i", "n", "t", " ", "x", ";", " ", "x", "[", "0", "]", ";">>,
    \* int[] a; a[b];
      <<"i", "n", "t", "[", "]", " ", "a", ";", " ", "a", "[", "b", "]",
        ";">>,
    \* int x; x.y;
      <<"i", "n", "t", " ", "x", ";", " ", "x", ".", "y", ";">>,
    \* z.y;
      <<"z", ".", "y", ";">>,
    \* for (i = 0; ; ) { }
      <<"f", "o", "r", " ", "(", "i", " ", "=", " ", "0", ";", " ", ";", " ",
        ")", " ", "{", " ", "}">>,
    \* int i; for (i = 1.5; ; ) { }
      <<"i", "n", "t", " ", "i", ";", " ", "f", "o", "r", " ", "(", "i", " ",
        "=", " ", "1", ".", "5", ";", " ", ";", " ", ")", " ", "{", " ",
        "}">>,
    \* int i; for (i = 0; j; ) { }
      <<"i", "n", "t", " ", "i", ";", " ", "f", "o", "r", " ", "(", "i", " ",
        "=", " ", "0", ";", " ", "j", ";", " ", ")", " ", "{", " ", "}">>,
    \* for (int i = 0; i < 2; i++) { i; }
      <<"f", "o", "r", " ", "(", "i", "n", "t", " ", "i", " ", "=", " ", "0",
        ";", " ", "i", " ", "<", " ", "2", ";", " ", "i", "+", "+", ")", " ",
        "{", " ", "i", ";", " ", "}">>,
    \* for (;; k) { }
      <<"f", "o", "r", " ", "(", ";", ";", " ", "k", ")", " ", "{", " ",
        "}">>,
    \* function f() { z; }
      <<"f", "u", "n", "c", "t", "i", "o", "n", " ", "f", "(", ")", " ", "{",
        " ", "z", ";", " ", "}">>,
    \* int x; function f(a) { x = a; }
      <<"i", "n", "t", " ", "x", ";", " ", "f", "u", "n", "c", "t", "i", "o",
        "n", " ", "f", "(", "a", ")", " ", "{", " ", "x", " ", "=", " ", "a",
        ";", " ", "}">>,
    \* int x; x + "a";
      <<"i", "n", "t", " ", "x", ";", " ", "x", " ", "+", " ", "\"", "a",
        "\"", ";">>,
    \* int x; x < "a";
      <<"i", "n", "t", " ", "x", ";", " ", "x", " ", "<", " ", "\"", "a",
        "\"", ";">>,
    \* int x; x && "a";
      <<"i", "n", "t", " ", "x", ";", " ", "x", " ", "&", "&", " ", "\"",
        "a", "\"", ";">>,
    \* "a"++;
      <<"\"", "a", "\"", "+", "+", ";">>,
    \* int x; -x;
      <<"i", "n", "t", " ", "x", ";", " ", "-", "x", ";">>,
    \* !z;
      <<"!", "z", ";">>,
    \* int x; if (x) { } else { z; }
      <<"i", "n", "t", " ", "x", ";", " ", "i", "f", " ", "(", "x", ")", " ",
        "{", " ", "}", " ", "e", "l", "s", "e", " ", "{", " ", "z", ";", " ",
        "}">>,
    \* int x; float y; x = y;
      <<"i", "n", "t", " ", "x", ";", " ", "f", "l", "o", "a", "t", " ", "y",
        ";", " ", "x", " ", "=", " ", "y", ";">>,
    \* f(z);
      <<"f", "(", "z", ")", ";">>,
    \* int x = y;
      <<"i", "n", "t", " ", "x", " ", "=", " ", "y", ";">>,
    \* int x = 1; int x = 2;
      <<"i", "n", "t", " ", "x", " ", "=", " ", "1", ";", " ", "i", "n", "t",
        " ", "x", " ", "=", " ", "2", ";">>,
    \* float y; int x; y = x; y;
      <<"f", "l", "o", "a", "t", " ", "y", ";", " ", "i", "n", "t", " ", "x",
        ";", " ", "y", " ", "=", " ", "x", ";", " ", "y", ";">>,
    \* int[] a = 1;
      <<"i", "n", "t", "[", "]", " ", "a", " ", "=", " ", "1", ";">>,
    \* int x; x = [z];
      <<"i", "n", "t", " ", "x", ";", " ", "x", " ", "=", " ", "[", "z", "]",
        ";">>,
    \* const int c = z;
      <<"c", "o", "n", "s", "t", " ", "i", "n", "t", " ", "c", " ", "=", " ",
        "z", ";">>,
    \* int x; x ? z : 1;
      <<"i", "n", "t", " ", "x", ";", " ", "x", " ", "?", " ", "z", " ", ":",
        " ", "1", ";">> }

Sources ==
    ShortSources \cup RenderSources \cup AssignSources \cup PrecedenceSources
        \cup OtherSources \cup EngineSources \cup RawSources \cup CommentSources
        \cup StatementSources \cup TypeSources

FrontInit ==
    /\ source \in Sources
    /\ tokens = <<>>
    /\ failure = NoFailure
    /\ ast = None
    /\ phase = "source"
    /\ output = <<>>
    /\ label_counter = 0
    /\ labels = <<>>
    /\ error = ""
    /\ pc = 0
    /\ rstack = <<>>
    /\ ostack = <<>>
    /\ env = [n \in {"x"} |-> 0]
    /\ trace = <<>>
    /\ CliIdle

FrontNext ==
    \/ Tokenize
    \/ Parse
    \/ Generate

FrontSpec == FrontInit /\ [][FrontNext]_vars

(***************************************************************************)
(* The command line run: main() over the command lines and input files.    *)
(***************************************************************************)
InputPaths == {<<"a", ".", "c", "s", "t">>, <<"b">>}

OutputPaths == {<<>>, <<"o", ".", "s", "s">>}

\* the texts an input file may hold
FileTexts == TypeSources \cup RawSources \cup
    {<<>>, <<"@">>, <<"x", " ", "=", " ", ";">>, <<"x", " ", "=", " ", "1", ";">>,
     <<"x", " ", "=", " ", "[", "1", "]", ";">>}

\* the command lines argparse accepts, over an input file that exists or not
CliInit ==
    /\ argv \in [command : {"compile"}, input : InputPaths, output : OutputPaths,
                 stdout : BOOLEAN, no_typecheck : BOOLEAN]
              \cup [command : {"version", ""}, input : {<<>>}, output : {<<>>},
                    stdout : {FALSE}, no_typecheck : {FALSE}]
    /\ fs \in {<<>>} \cup (IF argv.command = "compile"
                         THEN {argv.input :> text : text \in FileTexts}
                         ELSE {})
    /\ stdout = <<>>
    /\ stderr = <<>>
    /\ stages = <<>>
    /\ status = <<>>
    /\ source = <<>>
    /\ tokens = <<>>
    /\ failure = NoFailure
    /\ ast = None
    /\ phase = "cli"
    /\ output = <<>>
    /\ label_counter = 0
    /\ labels = <<>>
    /\ error = ""
    /\ pc = 0
    /\ rstack = <<>>
    /\ ostack = <<>>
    /\ env = [n \in {"x"} |-> 0]
    /\ trace = <<>>

CliNext ==
    \/ CompileCommand
    \/ VersionCommand
    \/ NoCommand

CliSpec == CliInit /\ [][CliNext]_vars

(***************************************************************************)
(* Reading the output and the execution history.                           *)
(***************************************************************************)
Generated == phase \in {"generated", "running", "halted"}

\* the emitted line executed at step q of the history
Exec(q) == output[trace[q].ln]

\* the line executed after step q: the next step of the history, or the line
\* control stands on
NextLn(q) == IF q < Len(trace) THEN trace[q + 1].ln ELSE pc

\* the emitted lines of one AST node in one role
LinesOf(at, role) ==
    {i \in 1..Len(output) : output[i].at = at /\ output[i].role = role}

IsPrefix(p, s) == Len(p) <= Len(s) /\ SubSeq(s, 1, Len(p)) = p

\* the function declared under the name a call line names
EntryOf(c) ==
    {f \in 1..Len(output) : output[f].role = "func_label" /\ output[f].a = output[c].a}

Arity(f) == Cardinality(LinesOf(output[f].at, "pop_param"))

(***************************************************************************)
(* C1: for a function with parameters p1..pn (n >= 2) called with n        *)
(* arguments, the call site emits PUSH an .. PUSH a1 then CALL f, the      *)
(* entry emits POP p1 .. POP pn in declared order, and after the entry has *)
(* run each parameter pi holds the value of argument ai.                   *)
(***************************************************************************)
C1_PushesReversed ==
    \A c \in 1..Len(output) :
        output[c].role = "call" /\ output[c].k >= 2 =>
            \A j \in 1..output[c].k :
                /\ c - j >= 1
                /\ output[c - j].role = "push_arg"
                /\ output[c - j].k = j

C1_PopsDeclaredOrder ==
    \A f \in 1..Len(output) :
        output[f].role = "func_label" /\ Arity(f) >= 2 =>
            \A j \in 1..Arity(f) :
                /\ output[f + j].role = "pop_param"
                /\ output[f + j].k = j

\* every parameter received so far holds the value pushed for the argument
\* of the same position
C1_BindingRecovered ==
    \A q \in 1..Len(trace) :
        /\ Exec(q).role = "pop_param"
        /\ \E c \in 1..Len(output) :
              /\ output[c].role = "call" /\ output[c].k >= 2
              /\ \E f \in EntryOf(c) :
                    output[f].at = Exec(q).at /\ Arity(f) = output[c].k
        => \E p \in 1..(q - 1) :
              /\ Exec(p).role = "push_arg"
              /\ Exec(p).k = Exec(q).k
              /\ trace[p].v = trace[q].v

\* C1: the call site pushes an .. a1, the entry pops p1 .. pn in declared
\* order, and every parameter pi holds the value of argument ai
C1_PositionalBinding ==
    Generated => C1_PushesReversed /\ C1_PopsDeclaredOrder /\ C1_BindingRecovered

\* what the lowering does instead: the entry pops the parameters last to
\* first, so the first parameter receives the last argument
C1_ReversedBinding ==
    /\ phase = "halted"
    /\ \E q \in 1..Len(trace) :
          /\ Exec(q).role = "pop_param" /\ Exec(q).k = 1
          /\ \E p \in 1..(q - 1) :
                /\ Exec(p).role = "push_arg" /\ Exec(p).k = 2
                /\ trace[p].v = trace[q].v
                /\ \A p1 \in 1..(q - 1) :
                      Exec(p1).role = "push_arg" /\ Exec(p1).k = 1
                          => trace[p1].v # trace[q].v

(***************************************************************************)
(* C2: one execution of a lowered if statement, from its CALLIF to its end *)
(* label, runs the then-body only when the guard holds and the else-body   *)
(* only when the guard does not hold; never both.                          *)
(***************************************************************************)
\* the steps of the entry that starts at step c: those after c, up to the
\* next time the construct at the same node is left or entered again
Entry(c, closing) ==
    {q \in (c + 1)..Len(trace) :
        \A m \in (c + 1)..(q - 1) :
            ~(Exec(m).at = Exec(c).at /\ Exec(m).role \in closing)}

Runs(c, closing, role) ==
    \E q \in Entry(c, closing) : Exec(q).at = Exec(c).at /\ Exec(q).role = role

\* C2: in one entry of an if the then-body runs only with the guard true,
\* the else-body only with the guard false
C2_ExactlyOneBranch ==
    Generated =>
        \A c \in 1..Len(trace) :
            Exec(c).role = "if_callif" =>
                /\ Runs(c, {"if_callif", "if_end"}, "if_then") => trace[c].v = 1
                /\ Runs(c, {"if_callif", "if_end"}, "if_else") => trace[c].v = 0

\* what the lowering does instead: with the guard true the then-body and
\* then the else-body run in the same entry
C2_BothBranches ==
    /\ phase = "halted"
    /\ \E c \in 1..Len(trace) :
          /\ Exec(c).role = "if_callif" /\ trace[c].v = 1
          /\ Runs(c, {"if_callif", "if_end"}, "if_then")
          /\ Runs(c, {"if_callif", "if_end"}, "if_else")

(***************************************************************************)
(* The AST node an emitted line comes from.                                *)
(***************************************************************************)
Num(seg) == CHOOSE i \in 0..9 : str(i) = seg

\* the statement list of node a path segment names
StmtsOf(node, seg) ==
    CASE seg = "top" -> node.statements
      [] seg = "body" -> node.body
      [] seg = "then" -> node.then_body
      [] seg = "else" -> node.else_body.statements
      [] seg = "default" -> node.default_case.statements

RECURSIVE NodeAt(_, _)
NodeAt(node, path) ==
    IF path = <<>> THEN node
    ELSE CASE path[1] = "init" -> NodeAt(node.init, Tail(path))
           [] path[1] = "case" ->
                NodeAt(node.cases[Num(path[2])].statements[Num(path[3])],
                       SubSeq(path, 4, Len(path)))
           [] OTHER ->
                NodeAt(StmtsOf(node, path[1])[Num(path[2])],
                       SubSeq(path, 3, Len(path)))

(***************************************************************************)
(* C3: in a while loop, and in a for loop that has a condition, when the   *)
(* loop's condition is false at the guard jump, control goes from the      *)
(* guard directly to that loop's end label: no instruction of the body and *)
(* no for-increment executes.                                              *)
(***************************************************************************)
C3_FalseGuardJumpsToEnd ==
    [][(/\ Running
        /\ Cur.role = "loop_guard"
        /\ ~Holds(NodeAt(ast, Cur.at).condition, env))
       => /\ phase' = "running"
          /\ pc' \in LinesOf(Cur.at, "loop_end")]_vars

\* a loop whose condition is false the first time its guard is reached has
\* been left through its end label with no line of the loop in between
C3_LoopSkipped ==
    \E q \in 1..Len(trace) :
        /\ Exec(q).role = "loop_guard"
        /\ trace[q].v = 1
        /\ \A m \in 1..(q - 1) : Exec(m).role # "loop_guard"
        /\ NodeAt(ast, Exec(q).at).body # <<>>
        /\ q < Len(trace)
        /\ Exec(q + 1).role = "loop_end" /\ Exec(q + 1).at = Exec(q).at

(***************************************************************************)
(* C4: a for loop with an increment expression of any form (i++, ++i, i--, *)
(* i = i + 1, ...) has the increment as the last instruction of the loop   *)
(* body: emitted directly before the jump back to the loop label, and in   *)
(* execution run once per completed iteration, directly before that jump.  *)
(***************************************************************************)
\* line b is the jump back of a for loop that has an increment
ForBackEdge(b) ==
    /\ output[b].role = "loop_back"
    /\ NodeAt(ast, output[b].at).kind = "ForLoop"
    /\ IsNode(NodeAt(ast, output[b].at).increment)

\* C4: the increment of a for loop is emitted, and executed, directly
\* before the jump back to the loop label
C4_IncrementLast ==
    Generated =>
        /\ \A b \in 1..Len(output) :
              ForBackEdge(b) =>
                  /\ b > 1
                  /\ output[b - 1].role = "for_inc"
                  /\ output[b - 1].at = output[b].at
        /\ \A q \in 1..Len(trace) :
              ForBackEdge(trace[q].ln) =>
                  /\ q > 1
                  /\ Exec(q - 1).role = "for_inc"
                  /\ Exec(q - 1).at = Exec(q).at

\* what the lowering does instead: an iteration of a for loop whose
\* increment is an assignment completes with no increment executed
C4_IncrementDropped ==
    \E q \in 2..Len(trace) :
        /\ ForBackEdge(trace[q].ln)
        /\ NodeAt(ast, Exec(q).at).increment.kind = "Assignment"
        /\ LinesOf(Exec(q).at, "for_inc") = {}

(***************************************************************************)
(* C5: within one generate() call no two labels returned by generate_label *)
(* are textually identical, whatever the AST: the counter strictly         *)
(* increases and is shared by all purpose tags.                            *)
(***************************************************************************)
C5_GeneratedLabelsDistinct ==
    /\ label_counter = Len(labels)
    /\ \A i, j \in 1..Len(labels) : i # j => labels[i] # labels[j]

\* two structurally identical independent constructs have been lowered, with
\* labels of the same purpose tag drawn for each
C5_TwinConstructsLowered ==
    /\ phase = "generated"
    /\ Len(ast.statements) = 2
    /\ ast.statements[1] = ast.statements[2]
    /\ ast.statements[1].kind \in {"WhileStatement", "ForLoop"}
    /\ Len(labels) = 4

(***************************************************************************)
(* C6: in the output of one compilation no two label lines (':name') are   *)
(* textually identical: synthesized labels, _main, function labels and     *)
(* user-declared labels never collide.                                     *)
(***************************************************************************)
C6_LabelLinesDistinct ==
    Generated =>
        \A i, j \in 1..Len(output) :
            i # j /\ output[i].op = "LABEL" /\ output[j].op = "LABEL"
                => output[i].text # output[j].text

\* what the lowering does instead: a user label is emitted under the name of
\* another label of the output
C6_LabelLineRepeated ==
    /\ phase = "generated"
    /\ \E i, j \in 1..Len(output) :
          /\ i # j
          /\ output[i].role = "user_label"
          /\ output[j].op = "LABEL"
          /\ output[i].text = output[j].text

(***************************************************************************)
(* C7: every variable declaration at program top level, scalar or array,   *)
(* is emitted exactly once as an INIT line; every INIT line precedes every *)
(* instruction and every label line; no top-level declaration is emitted   *)
(* as a SET in the main code.                                              *)
(***************************************************************************)
TopLevelDecls ==
    {i \in 1..Len(ast.statements) :
        ast.statements[i].kind \in {"VariableDeclaration", "ArrayDeclaration"}}

\* C7: every top-level declaration is INIT lines only, a scalar one exactly
\* one, and every INIT line precedes all instructions and labels
C7_TopLevelDeclsAreInits ==
    Generated =>
        /\ \A i \in TopLevelDecls :
              /\ LinesOf(<<"top", str(i)>>, "init") # {}
              /\ \A l \in 1..Len(output) :
                    output[l].at = <<"top", str(i)>> => output[l].op = "INIT"
              /\ ast.statements[i].kind = "VariableDeclaration" =>
                    Cardinality(LinesOf(<<"top", str(i)>>, "init")) = 1
        /\ \A l, m \in 1..Len(output) :
              output[l].op = "INIT" /\ output[m].op \notin {"INIT", "BLANK"}
                  => l < m

\* what the lowering does instead: a top-level array declaration comes out
\* as SET lines after the _main label
C7_ArrayDeclInMain ==
    /\ phase = "generated"
    /\ \E i \in TopLevelDecls :
          /\ ast.statements[i].kind = "ArrayDeclaration"
          /\ LinesOf(<<"top", str(i)>>, "init") = {}
          /\ \E l, m \in 1..Len(output) :
                /\ output[m].role = "main_label" /\ m < l
                /\ output[l].at = <<"top", str(i)>> /\ output[l].op = "SET"

(***************************************************************************)
(* C8: compiling the whole program `int x = 5 + 3;` produces output that   *)
(* contains the line `SET x {5 + 3}`.                                      *)
(***************************************************************************)
\* int x = 5 + 3;
DeclXFivePlusThree ==
    Program(<<VariableDeclaration("int", "x",
                                  BinaryOp(Literal(5), "+", Literal(3)))>>)

Contains(text) == \E l \in 1..Len(output) : output[l].text = text

\* C8: the output of `int x = 5 + 3;` contains the line `SET x {5 + 3}`
C8_ContainsSetLine ==
    phase = "generated" /\ ast = DeclXFivePlusThree => Contains("SET x {5 + 3}")

(***************************************************************************)
(* C8, as the generator does it: compiling the whole program               *)
(* `int x = 5 + 3;` produces exactly one line, `INIT x {5 + 3}`: the       *)
(* declaration is at top level, so it is an initial-state binding, and the *)
(* output has no SET line.                                                 *)
(***************************************************************************)
C8_ContainsInitLine ==
    phase = "generated" /\ ast = DeclXFivePlusThree =>
        /\ Len(output) = 1
        /\ output[1].text = "INIT x {5 + 3}"
        /\ ~Contains("SET x {5 + 3}")

C8_DeclCompiled ==
    /\ phase = "generated"
    /\ ast = DeclXFivePlusThree
    /\ Contains("INIT x {5 + 3}")

(***************************************************************************)
(* C9: one execution of a lowered switch statement runs at most one case   *)
(* body: once a case body has run, no later case check and no other case   *)
(* body of that switch executes.                                           *)
(***************************************************************************)
\* step q enters the switch: its first case check executes
SwitchEntered(q) == Exec(q).role = "case_check" /\ Exec(q).k = 1

\* the steps that belong to the entry at step c: from c up to the next
\* entry of the same switch
SwitchRun(c) ==
    {q \in c..Len(trace) :
        \A m \in (c + 1)..q : Exec(m).at = Exec(c).at => ~SwitchEntered(m)}

\* C9: within one entry of a switch, after a case body has run neither a
\* case check nor a case body of that switch executes
C9_AtMostOneCaseBody ==
    Generated =>
        \A c \in 1..Len(trace) :
            SwitchEntered(c) =>
                \A q1, q2 \in SwitchRun(c) :
                    /\ q1 < q2
                    /\ Exec(q1).at = Exec(c).at /\ Exec(q1).role = "case_label"
                    /\ Exec(q2).at = Exec(c).at
                    => Exec(q2).role \notin {"case_check", "case_label"}

\* what the lowering does instead: two case bodies of one switch run with
\* no new entry of the switch in between
C9_TwoCaseBodies ==
    \E c \in 1..Len(trace) :
        /\ SwitchEntered(c)
        /\ \E q1, q2 \in SwitchRun(c) :
              /\ q1 < q2
              /\ Exec(q1).at = Exec(c).at /\ Exec(q1).role = "case_label"
              /\ Exec(q2).at = Exec(c).at /\ Exec(q2).role = "case_label"

(***************************************************************************)
(* C10: the statements of a switch's default case are emitted once, after  *)
(* the final case check, and they execute on every execution of the        *)
(* switch, whether or not a case matched.                                  *)
(***************************************************************************)
\* the emitted lines of the default-case statements of the switch at node at
DefaultLines(at) ==
    {l \in 1..Len(output) : IsPrefix(at \o <<"default">>, output[l].at)}

\* line e closes a switch whose default case has statements
HasDefault(e) ==
    /\ output[e].role = "switch_end"
    /\ IsNode(NodeAt(ast, output[e].at).default_case)
    /\ NodeAt(ast, output[e].at).default_case.statements # <<>>

\* C10: the default statements are emitted once, after every case check,
\* and have executed whenever the end label of the switch is reached
C10_DefaultOnceAndAlways ==
    Generated =>
        /\ \A e \in 1..Len(output) :
              HasDefault(e) =>
                  /\ DefaultLines(output[e].at) # {}
                  /\ \A l1, l2 \in DefaultLines(output[e].at) :
                        /\ output[l1].at = output[l2].at
                        /\ output[l1].role = output[l2].role
                        /\ output[l1].k = output[l2].k
                        => l1 = l2
                  /\ \A l \in DefaultLines(output[e].at) :
                        \A m \in LinesOf(output[e].at, "case_check") : m < l
        /\ \A q \in 1..Len(trace) :
              HasDefault(trace[q].ln) =>
                  \E p \in 1..(q - 1) : trace[p].ln \in DefaultLines(Exec(q).at)

\* what the lowering does instead: the default statements are emitted after
\* every case check, and a switch whose first case matched reaches its end
\* label with none of them executed
C10_DefaultRepeatedAndSkipped ==
    \E q \in 1..Len(trace) :
        /\ HasDefault(trace[q].ln)
        /\ Cardinality(DefaultLines(Exec(q).at)) >= 2
        /\ \A p \in 1..(q - 1) : trace[p].ln \notin DefaultLines(Exec(q).at)

(***************************************************************************)
(* The statements of the program, by path.                                 *)
(***************************************************************************)
RECURSIVE PathsIn(_, _)
\* the paths of the statements nested in node, itself at path p
PathsBelow(node, p) ==
    CASE node.kind \in {"FunctionDeclaration", "WhileStatement", "ForLoop"} ->
            PathsIn(node.body, p \o <<"body">>)
      [] node.kind = "IfStatement" ->
            PathsIn(node.then_body, p \o <<"then">>)
            \cup (IF node.else_body.kind = "Block"
                  THEN PathsIn(node.else_body.statements, p \o <<"else">>)
                  ELSE {})
      [] node.kind = "SwitchStatement" ->
            UNION {PathsIn(node.cases[i].statements, p \o <<"case", str(i)>>) :
                      i \in 1..Len(node.cases)}
            \cup (IF IsNode(node.default_case)
                  THEN PathsIn(node.default_case.statements, p \o <<"default">>)
                  ELSE {})
      [] OTHER -> {}

\* the paths of the statements of the list at path at, nested ones included
PathsIn(stmts, at) ==
    UNION {{at \o <<str(i)>>} \cup PathsBelow(stmts[i], at \o <<str(i)>>) :
              i \in 1..Len(stmts)}

StmtPaths == PathsIn(ast.statements, <<"top">>)

\* the emitted lines of the statement at path p itself
OwnLines(p) == {l \in 1..Len(output) : output[l].at = p}

(***************************************************************************)
(* C11: a function-call statement f(a1..an), n >= 0, emits exactly n PUSH  *)
(* lines, for an, ..., a1 in that order, immediately followed by exactly   *)
(* one `CALL f`; a string argument is rendered as [text].                  *)
(***************************************************************************)
IsCallStmt(node) ==
    node.kind = "ExpressionStatement" /\ node.expression.kind = "FunctionCall"

\* the operand text of an argument
ArgText(a) ==
    CASE a.kind = "Literal" /\ a.literal_type = "string" -> "[" \o a.svalue \o "]"
      [] a.kind = "Literal" /\ a.literal_type = "int" -> ToString(a.value)
      [] a.kind = "Identifier" -> a.name
      [] OTHER -> expression_to_string(a)

\* C11: the lines of every call statement are PUSH an .. PUSH a1, CALL f
C11_PushesThenCall ==
    Generated =>
        \A p \in StmtPaths :
            IsCallStmt(NodeAt(ast, p)) =>
                LET call == NodeAt(ast, p).expression
                    n == Len(call.args)
                IN  /\ Cardinality(OwnLines(p)) = n + 1
                    /\ \E lo \in 1..Len(output) :
                          /\ OwnLines(p) = lo..(lo + n)
                          /\ \A j \in 1..n :
                                output[lo + j - 1].text
                                    = "PUSH " \o ArgText(call.args[n + 1 - j])
                          /\ output[lo + n].text = "CALL " \o call.name

\* a call with two arguments, one of them a text, has been lowered
C11_TextCallLowered ==
    /\ phase = "generated"
    /\ \E p \in StmtPaths :
          /\ IsCallStmt(NodeAt(ast, p))
          /\ Len(NodeAt(ast, p).expression.args) = 2
          /\ NodeAt(ast, p).expression.args[1].kind = "Literal"
          /\ NodeAt(ast, p).expression.args[1].literal_type = "string"
          /\ \E l \in OwnLines(p) : output[l].text = "PUSH [a]"

(***************************************************************************)
(* C12: a function declaration with parameters p1..pn emits the label line *)
(* ':name' followed by exactly n POP lines in reverse declaration order    *)
(* (POP pn first, POP p1 last), before any instruction of the body.        *)
(***************************************************************************)
\* the emitted lines of the statements nested under path p
BodyLines(p) ==
    {l \in 1..Len(output) : IsPrefix(p \o <<"body">>, output[l].at)}

\* C12: the entry of every function is ':name', POP pn, .., POP p1
C12_EntryPopsReversed ==
    Generated =>
        \A p \in StmtPaths :
            NodeAt(ast, p).kind = "FunctionDeclaration" =>
                LET f == NodeAt(ast, p)
                    n == Len(f.params)
                IN  \E lo \in OwnLines(p) :
                        /\ output[lo].text = ":" \o f.name
                        /\ \A l \in OwnLines(p) \cup BodyLines(p) : lo <= l
                        /\ \A j \in 1..n :
                              /\ lo + j \in OwnLines(p)
                              /\ output[lo + j].text = "POP " \o f.params[n + 1 - j]
                        /\ Cardinality({l \in OwnLines(p) : output[l].op = "POP"}) = n
                        /\ \A l \in BodyLines(p) : lo + n < l

\* a function with two parameters and a body has been lowered
C12_TwoParamsLowered ==
    /\ phase = "generated"
    /\ \E p \in StmtPaths :
          /\ NodeAt(ast, p).kind = "FunctionDeclaration"
          /\ Len(NodeAt(ast, p).params) = 2
          /\ BodyLines(p) # {}
          /\ \E l \in OwnLines(p) :
                output[l].text = "POP b" /\ output[l + 1].text = "POP a"

(***************************************************************************)
(* C13: the code of every function ends with exactly one RETURN line: one  *)
(* is appended when the body is empty or does not end with a return        *)
(* statement, and none is appended when the body ends with a return.       *)
(***************************************************************************)
\* the RETURN lines the function declaration itself appended
AppendedReturns(p) == {l \in OwnLines(p) : output[l].role = "func_ret"}

EndsWithReturn(f) ==
    f.body # <<>> /\ f.body[Len(f.body)].kind = "ReturnStatement"

Max(S) == CHOOSE m \in S : \A l \in S : l <= m

\* C13: last line of a function is RETURN, appended iff the body does not end with one
C13_OneClosingReturn ==
    Generated =>
        \A p \in StmtPaths :
            NodeAt(ast, p).kind = "FunctionDeclaration" =>
                LET f == NodeAt(ast, p)
                    last == Max(OwnLines(p) \cup BodyLines(p))
                IN  /\ output[last].text = "RETURN"
                    /\ IF EndsWithReturn(f)
                       THEN /\ AppendedReturns(p) = {}
                            /\ output[last].at = p \o <<"body", str(Len(f.body))>>
                            /\ Cardinality(OwnLines(output[last].at)) = 1
                       ELSE AppendedReturns(p) = {last}

\* both cases lowered: a body ending with a return, and one that does not
C13_ReturnClosedBody ==
    /\ phase = "generated"
    /\ \E p \in StmtPaths :
          /\ NodeAt(ast, p).kind = "FunctionDeclaration"
          /\ EndsWithReturn(NodeAt(ast, p))
          /\ Len(NodeAt(ast, p).body) = 2
          /\ AppendedReturns(p) = {}

(***************************************************************************)
(* C14: an array declaration with a literal initializer of n elements      *)
(* emits the slots name_0 .. name_(n-1) in element order and then          *)
(* name_length = n; an index expression name[k] with an integer literal k  *)
(* renders as the slot the declaration wrote for element k.                *)
(***************************************************************************)
IsLiteralArray(node) ==
    node.kind = "ArrayDeclaration" /\ node.initializer.kind = "ArrayLiteral"

\* the operand of every emitted line that reads an expression
IndexReads ==
    {l \in 1..Len(output) :
        /\ output[l].e.kind = "ArrayAccess"
        /\ output[l].e.array.kind = "Identifier"
        /\ output[l].e.index.kind = "Literal"
        /\ output[l].e.index.literal_type = "int"}

\* C14: slots name_0..name_(n-1) in order, then name_length; name[k] is slot k
C14_SlotsAndConstantIndex ==
    Generated =>
        \A p \in StmtPaths :
            IsLiteralArray(NodeAt(ast, p)) =>
                LET d == NodeAt(ast, p)
                    es == d.initializer.elements
                    n == Len(es)
                IN  \E lo \in 1..Len(output) :
                        /\ OwnLines(p) = lo..(lo + n)
                        /\ \A k \in 0..(n - 1) :
                              /\ output[lo + k].text =
                                    "SET " \o d.name \o "_" \o ToString(k) \o " "
                                        \o expression_to_string(es[k + 1])
                              /\ output[lo + k].a = d.name \o "_" \o ToString(k)
                              /\ expression_to_string(
                                     ArrayAccess(Identifier(d.name), Literal(k)))
                                   = output[lo + k].a
                        /\ output[lo + n].text =
                              "SET " \o d.name \o "_length " \o ToString(n)
                        /\ \A l \in IndexReads :
                              LET r == output[l].e
                              IN  (r.array.name = d.name /\ r.index.value < n) =>
                                    /\ output[l].text \in
                                          {"SET x " \o output[lo + r.index.value].a,
                                           "PUSH " \o output[lo + r.index.value].a}
                                    /\ l > lo + n

\* a three-element array has been lowered and its last element read
C14_LastElementRead ==
    /\ phase = "generated"
    /\ \E p \in StmtPaths :
          /\ IsLiteralArray(NodeAt(ast, p))
          /\ Len(NodeAt(ast, p).initializer.elements) = 3
          /\ \E l \in IndexReads : output[l].text = "SET x arr_2"
    /\ \E l \in 1..Len(output) : output[l].text = "SET arr_2 1"

(***************************************************************************)
(* C15: an array index expression whose index is not a literal constant    *)
(* makes generation fail with an error; no line is ever emitted for it, so *)
(* no output holds a placeholder or a guessed slot name.                   *)
(***************************************************************************)
RECURSIVE HasVariableIndex(_)
HasVariableIndex(e) ==
    CASE e.kind = "ArrayAccess" -> e.index.kind # "Literal"
      [] e.kind = "BinaryOp" -> HasVariableIndex(e.left) \/ HasVariableIndex(e.right)
      [] e.kind = "UnaryOp" -> HasVariableIndex(e.operand)
      [] e.kind = "Assignment" -> HasVariableIndex(e.value)
      [] OTHER -> FALSE

\* the statement at path p reads an element by a non-constant index
ReadsByVariableIndex(p) ==
    LET node == NodeAt(ast, p)
    IN  /\ node.kind = "ExpressionStatement"
        /\ CASE node.expression.kind = "FunctionCall" ->
                   \E i \in 1..Len(node.expression.args) :
                       HasVariableIndex(node.expression.args[i])
             [] OTHER -> HasVariableIndex(node.expression)

\* C15: a program reading by a non-constant index is rejected, nothing emitted for it
C15_VariableIndexRejected ==
    \A p \in StmtPaths :
        ReadsByVariableIndex(p) =>
            /\ phase \in {"parsed", "failed"}
            /\ OwnLines(p) = {}

\* the placeholder and the guessed slot that are emitted instead
C15_PlaceholderEmitted ==
    /\ phase = "generated"
    /\ error = ""
    /\ \E p \in StmtPaths :
          /\ ReadsByVariableIndex(p)
          /\ \E l \in OwnLines(p) :
                output[l].text \in {"SET x {$arr_{i}}", "SET x arr_0"}

(***************************************************************************)
(* C16: expression_to_string renders a numeric literal as exactly the      *)
(* digits written in the source, a string literal as [text], an identifier *)
(* as its name, and a binary or unary expression as its operands and       *)
(* operator in one pair of braces.  Checked on x = <text>; from source     *)
(* text to the emitted SET line.                                           *)
(***************************************************************************)
LastLine == output[Len(output)].text

\* the rendering the claim expects of the composite texts
ExpectedComposite(t) ==
    CASE t = <<"a", " ", "+", " ", "1">> -> "{a + 1}"
      [] t = <<"-", "a">> -> "{-a}"
      [] t = <<"a", "+", "+">> -> "{a++}"
      [] t = <<"!", "a">> -> "{!a}"
      [] t = <<"a", " ", "*", " ", "b", " ", "-", " ", "1">> -> "{{a * b} - 1}"
      [] OTHER -> "{-{a + b}}"

\* C16: strings, identifiers and composites render as stated
C16_TextAndCompositesRendered ==
    phase = "generated" =>
        /\ \A t \in StringTexts :
              source = SetXTo(t) =>
                  LastLine = "SET x [" \o tokens[3].svalue \o "]"
        /\ source = SetXTo(<<"y">>) => LastLine = "SET x y"
        /\ \A t \in CompositeTexts :
              source = SetXTo(t) => LastLine = "SET x " \o ExpectedComposite(t)

\* C16: a numeric literal is rendered as the digits written in the source
C16_NumbersRenderedAsWritten ==
    phase = "generated" =>
        \A t \in NumberTexts :
            source = SetXTo(t) => LastLine = "SET x " \o join(t)

\* numbers are rendered after conversion to int or float: 007 as 7, 1.50 as 1.5
C16_NumberRewritten ==
    /\ phase = "generated"
    /\ \/ source = SetXTo(<<"0", "0", "7">>) /\ LastLine = "SET x 7"
       \/ source = SetXTo(<<"1", ".", "5", "0">>) /\ LastLine = "SET x 1.5"
       \/ source = SetXTo(<<"1", ".">>) /\ LastLine = "SET x 1.0"

(***************************************************************************)
(* C17: every emitted line that is not blank is one of the target forms    *)
(* INIT, SET, GOTO, CALLIF, CALL, RETURN, PUSH, POP, INC, DEC (and the     *)
(* other listed instructions) or a label line, for-loop init and increment *)
(* expressions and bare expression statements included.                    *)
(***************************************************************************)
TargetForms ==
    {"LABEL", "INIT", "SET", "GOTO", "CALLIF", "CALL", "RETURN", "PUSH", "POP",
     "INC", "DEC"}

\* C17: every non-blank line of the output is a target form
C17_EveryLineIsTargetForm ==
    \A l \in 1..Len(output) : output[l].op \in TargetForms \cup {"BLANK"}

\* the text of an expression is emitted as a line of its own
C17_ExpressionTextEmitted ==
    /\ phase = "generated"
    /\ \E l \in 1..Len(output) :
          /\ output[l].op = "EXPR"
          /\ output[l].text \in {"i = 0", "{x + 1}", "{-x}"}

(***************************************************************************)
(* C18: tokenize returns a token list or fails with a lex error of one of  *)
(* three kinds (unexpected character, unterminated string, unterminated    *)
(* comment) that carries line and column; nothing else is raised, also not *)
(* for a digit run with two points or a string ending in a backslash.      *)
(***************************************************************************)
\* tokenize() raised: no token list was returned
LexFailed == phase = "failed" /\ tokens = <<>>

\* C18: every failure of tokenize is one of the three lex errors, with its position
C18_OnlyLexErrors ==
    /\ LexFailed =>
          /\ failure.type = "SyntaxError"
          /\ failure.what \in {"Unexpected character", "Unterminated string",
                               "Unterminated block comment"}
          /\ failure.line >= 1 /\ failure.column >= 1
    /\ (tokens # <<>>) => tokens[Len(tokens)].type = "EOF"

\* the conversions of read_number and read_string raise errors of their own
C18_OtherErrorRaised ==
    /\ LexFailed
    /\ \/ source = <<"1", ".", ".">> /\ failure.type = "ValueError"
       \/ source = <<"\"", "\\">> /\ failure.type = "TypeError"

(***************************************************************************)
(* C19: L = R parses to an Assignment exactly when L is a plain            *)
(* identifier; with any other left side parsing fails with ParseError      *)
(* (invalid assignment target) and no AST is returned.                     *)
(***************************************************************************)
\* parse() has returned or raised
ParseEnded == tokens # <<>> /\ phase # "lexed"

\* C19: an identifier target gives an Assignment, every other target a ParseError
C19_AssignmentIffIdentifier ==
    ParseEnded =>
        /\ \A t \in PlainTargets :
              source = AssignTo(t) =>
                  /\ failure = NoFailure
                  /\ ast = Program(<<ExpressionStatement(
                                       Assignment(join(t), Literal(1)))>>)
        /\ \A t \in OtherTargets :
              source = AssignTo(t) =>
                  /\ failure.type = "ParseError"
                  /\ failure.what = "Invalid assignment target"
                  /\ ast = None

\* a + b = 1 is accepted, with the assignment nested under the operator
C19_BinaryTargetAccepted ==
    /\ ParseEnded
    /\ source = AssignTo(<<"a", " ", "+", " ", "b">>)
    /\ failure = NoFailure
    /\ ast = Program(<<ExpressionStatement(
                         BinaryOp(Identifier("a"), "+",
                                  Assignment("b", Literal(1))))>>)

(***************************************************************************)
(* C20: in a op1 b op2 c with operators of two different binding levels    *)
(* the tighter operator is grouped first, whichever comes first; a prefix  *)
(* operator binds tighter than every binary operator, and a postfix        *)
(* operator tighter than a prefix one.                                     *)
(***************************************************************************)
\* the binding order: logical-or loosest, multiplicative tightest
BindingLevel(op) ==
    CASE join(op) = "||" -> 1
      [] join(op) = "&&" -> 2
      [] join(op) \in {"==", "!="} -> 3
      [] join(op) \in {"<", ">", "<=", ">="} -> 4
      [] join(op) \in {"+", "-"} -> 5
      [] OTHER -> 6

A == Identifier("a")
B == Identifier("b")
C == Identifier("c")

Only(expression) == Program(<<ExpressionStatement(expression)>>)

ExpectedUnary(src) ==
    CASE src = <<"a", " ", "+", " ", "-", "b", ";">> ->
              BinaryOp(A, "+", UnaryOp("-", B, FALSE))
      [] src = <<"-", "a", "+", "+", ";">> ->
              UnaryOp("-", UnaryOp("++", A, TRUE), FALSE)
      [] src = <<"!", "a", "[", "0", "]", ";">> ->
              UnaryOp("!", ArrayAccess(A, Literal(0)), FALSE)
      [] src = <<"-", "a", ".", "b", ";">> ->
              UnaryOp("-", MemberAccess(A, "b"), FALSE)
      [] src = <<"-", "-", "a", "+", "+", ";">> ->
              UnaryOp("--", UnaryOp("++", A, TRUE), FALSE)
      [] OTHER -> UnaryOp("-", UnaryOp("-", A, FALSE), FALSE)

\* C20: the tighter operator groups first; prefix above binary, postfix above prefix
C20_TighterGroupsFirst ==
    ParseEnded =>
        /\ \A op1, op2 \in BinaryOperatorTexts :
              (BindingLevel(op1) # BindingLevel(op2)
                  /\ source = TwoOperators(op1, op2)) =>
                  ast = Only(IF BindingLevel(op1) > BindingLevel(op2)
                             THEN BinaryOp(BinaryOp(A, join(op1), B), join(op2), C)
                             ELSE BinaryOp(A, join(op1), BinaryOp(B, join(op2), C)))
        /\ \A op \in BinaryOperatorTexts :
              source = PrefixThenOperator(op) =>
                  ast = Only(BinaryOp(UnaryOp("-", A, FALSE), join(op), B))
        /\ \A src \in UnarySources :
              source = src => ast = Only(ExpectedUnary(src))

\* a + b * c and a * b + c have been parsed, and -a++
C20_MixedLevelsParsed ==
    /\ phase = "parsed"
    /\ \/ /\ source = TwoOperators(<<"+">>, <<"*">>)
          /\ ast = Only(BinaryOp(A, "+", BinaryOp(B, "*", C)))
       \/ /\ source = TwoOperators(<<"=", "=">>, <<"|", "|">>)
          /\ ast = Only(BinaryOp(BinaryOp(A, "==", B), "||", C))

(***************************************************************************)
(* C21: every engine operation is accepted by the parser only with its     *)
(* fixed argument shape (kill 0 arguments; wait, wait-for, push, pop,      *)
(* peek, delete 1; moveto 2; animate 3; spawnbot at least 2; thread a      *)
(* label then arguments); a call with another number of arguments fails    *)
(* with ParseError and gives no AST node with missing fields.              *)
(***************************************************************************)
\* parse() has returned a Program
ParseAccepted == ParseEnded /\ failure = NoFailure

EngineKeywords ==
    {"KILL", "WAIT", "WAITFOR", "THREAD", "SET", "PUSH", "POP", "PEEK",
     "SPAWNBOT", "MOVETO", "ANIMATE", "DELETE"}

\* the source is one engine call: keyword ( ... ) ;
IsEngineCall(ts) ==
    /\ Len(ts) >= 5
    /\ ts[1].type \in EngineKeywords
    /\ ts[2].type = "LPAREN"
    /\ ts[Len(ts) - 2].type = "RPAREN"
    /\ ts[Len(ts) - 1].type = "SEMICOLON"

\* the arguments written between the parentheses of the call (each one token)
ArgumentsWritten(ts) ==
    Cardinality({i \in 3..(Len(ts) - 3) : ts[i].type # "COMMA"})

\* the argument counts the fixed shape of an operation allows
FixedShape(keyword) ==
    CASE keyword = "KILL" -> {0}
      [] keyword \in {"WAIT", "WAITFOR", "PUSH", "POP", "PEEK", "DELETE"} -> {1}
      [] keyword \in {"MOVETO", "SET"} -> {2}
      [] keyword = "ANIMATE" -> {3}
      [] keyword = "SPAWNBOT" -> {n \in 0..Len(tokens) : n >= 2}
      [] OTHER -> {n \in 0..Len(tokens) : n >= 1}

\* the fields of an engine node that hold an expression
ExpressionFields(node) ==
    DOMAIN node \cap {"template", "location", "prop", "time", "condition", "value"}

\* the fields of an engine node that hold None
MissingFields(node) == {f \in ExpressionFields(node) : node[f] = None}

\* C21: an accepted engine call has its fixed number of arguments and its
\* node has no missing field
C21_FixedArgumentShape ==
    ParseAccepted /\ IsEngineCall(tokens) =>
        /\ ArgumentsWritten(tokens) \in FixedShape(tokens[1].type)
        /\ MissingFields(ast.statements[1].expression) = {}

(***************************************************************************)
(* C22: a raw { ... } construct ends at the closing brace that matches its *)
(* opening brace, the statements after that brace are parsed normally, and *)
(* the text emitted for it equals the source text between the braces       *)
(* verbatim: same tokens, same spelling, nothing translated, added or      *)
(* dropped.                                                                *)
(***************************************************************************)
\* the position in src of the brace that closes the one opened before i
RECURSIVE MatchingBrace(_, _, _)
MatchingBrace(src, i, depth) ==
    IF i > Len(src) THEN 0
    ELSE IF src[i] = "{" THEN MatchingBrace(src, i + 1, depth + 1)
    ELSE IF src[i] = "}"
    THEN IF depth = 1 THEN i ELSE MatchingBrace(src, i + 1, depth - 1)
    ELSE MatchingBrace(src, i + 1, depth)

FirstBrace(src) ==
    CHOOSE i \in 1..Len(src) : src[i] = "{" /\ \A j \in 1..(i - 1) : src[j] # "{"

RawClose(src) == MatchingBrace(src, FirstBrace(src) + 1, 1)

\* every brace of the source is a brace token: none inside a string or comment
BracesAreTokens ==
    /\ Cardinality({i \in 1..Len(source) : source[i] = "{"})
         = Cardinality({i \in 1..Len(tokens) : tokens[i].type = "LBRACE"})
    /\ Cardinality({i \in 1..Len(source) : source[i] = "}"})
         = Cardinality({i \in 1..Len(tokens) : tokens[i].type = "RBRACE"})

\* the source opens with a closed raw block
OpensWithRawBlock ==
    /\ Len(tokens) >= 2
    /\ tokens[1].type = "RAW"
    /\ tokens[2].type = "LBRACE"
    /\ BracesAreTokens
    /\ RawClose(source) # 0

\* the source text between the braces, without the blanks around it
RawBody == strip(SubSeq(source, FirstBrace(source) + 1, RawClose(source) - 1))

\* the source text after the closing brace
AfterRaw == SubSeq(source, RawClose(source) + 1, Len(source))

RawLines == {i \in 1..Len(output) : output[i].role = "raw"}

\* C22: the raw line is the text between the braces, and what follows the
\* closing brace is parsed as it is parsed alone
C22_RawCopiedVerbatim ==
    phase = "generated" /\ OpensWithRawBlock =>
        /\ ast.statements[1].kind = "RawBlock"
        /\ Tail(ast.statements) = parse(tokenize(AfterRaw).tokens).node.statements
        /\ IF RawBody = "" THEN RawLines = {}
           ELSE /\ Cardinality(RawLines) = 1
                /\ \A i \in RawLines : output[i].text = RawBody

(***************************************************************************)
(* C23: the compile pipeline is staged and all-or-nothing: the stages run  *)
(* in the order read, tokenize, parse, type-check (unless skipped),        *)
(* generate, write; when a stage fails no later stage runs; the output     *)
(* sink (file or stdout) is written only after every stage has succeeded,  *)
(* so no partial output is ever written.                                   *)
(***************************************************************************)
\* main() has called sys.exit after a compile command
Compiled == status # <<>> /\ argv.command = "compile"

ExpectedStages ==
    <<"read", "tokenize", "parse">>
        \o (IF argv.no_typecheck THEN <<>> ELSE <<"typecheck">>)
        \o <<"generate", "write">>

StageNames == [i \in 1..Len(stages) |-> stages[i].stage]

\* something reached the sink: standard output, or a file other than the input
SinkWritten == stdout # <<>> \/ \E p \in DOMAIN fs : p # argv.input

PassesEveryStage(text) ==
    /\ tokenize(text).exc = NoFailure
    /\ parse(tokenize(text).tokens).exc = NoFailure
    /\ argv.no_typecheck \/ check(parse(tokenize(text).tokens).node) = <<>>
    /\ generate(parse(tokenize(text).tokens).node).err = ""

\* the lines generate() gives for the text
GeneratedText(text) ==
    [i \in 1..Len(generate(parse(tokenize(text).tokens).node).output) |->
        generate(parse(tokenize(text).tokens).node).output[i].text]

OutputPath ==
    IF argv.output = <<>> THEN with_suffix(argv.input) ELSE argv.output

\* the chosen sink holds the generated text
SinkHolds(text) ==
    IF argv.stdout THEN stdout = <<text>>
    ELSE OutputPath \in DOMAIN fs /\ fs[OutputPath] = text

InputExists == argv.input \in DOMAIN fs

\* C24: a source that passes every stage is written and the exit status is
\* 0; the exit status is 1 only when a stage fails
C24_SuccessExitsZero ==
    Compiled /\ InputExists =>
        IF PassesEveryStage(fs[argv.input])
        THEN status = <<0>> /\ SinkHolds(GeneratedText(fs[argv.input]))
        ELSE status = <<1>>

(***************************************************************************)
(* C25: the generator's only failure mode is the unknown-node-kind error:  *)
(* for every AST Parser.parse can produce (a switch with cases and no      *)
(* default, a switch with only a default, an array literal as initializer  *)
(* of a scalar declaration or as an expression statement, built-in calls   *)
(* with missing arguments) generate() returns output text and raises no    *)
(* other exception.                                                        *)
(***************************************************************************)
\* C25: generate() over a parsed source ends with no exception or with the
\* unknown-node-kind error
C25_OnlyUnknownNodeKindFails ==
    ParseAccepted => error \in {"", UnknownNodeType}

(***************************************************************************)
(* C26: return-stack balance.  In the emitted code every label entered     *)
(* through CALLIF or CALL by a lowered if or switch is left through a      *)
(* RETURN, so the return-stack depth when control reaches the construct's  *)
(* end label equals the depth at the construct's entry, for every if/else  *)
(* and every switch whose bodies contain no goto or return statement.      *)
(***************************************************************************)
\* the statement lists nested directly in a statement
Bodies_of(s) ==
    CASE s.kind = "IfStatement" ->
            {s.then_body} \cup (IF IsNode(s.else_body)
                                THEN {s.else_body.statements} ELSE {})
      [] s.kind \in {"WhileStatement", "ForLoop"} -> {s.body}
      [] s.kind = "SwitchStatement" ->
            {s.cases[i].statements : i \in 1..Len(s.cases)}
            \cup (IF IsNode(s.default_case)
                  THEN {s.default_case.statements} ELSE {})
      [] OTHER -> {}

\* no goto and no return statement in the bodies of s, at any depth
RECURSIVE JumpFree(_)
JumpFree(s) ==
    \A b \in Bodies_of(s) : \A i \in 1..Len(b) :
        /\ b[i].kind \notin {"GotoStatement", "ReturnStatement"}
        /\ JumpFree(b[i])

\* the return-stack depth before step q of the history: the calls taken
\* less the returns taken in the steps before it
DepthBefore(q) ==
    Cardinality({m \in 1..(q - 1) :
                    \/ Exec(m).op = "CALL"
                    \/ Exec(m).op = "CALLIF" /\ trace[m].v = 1})
    - Cardinality({m \in 1..(q - 1) : Exec(m).op = "RETURN" /\ trace[m].v > 0})

\* step c enters an if or a switch
ConstructEntered(c) ==
    \/ Exec(c).role = "if_callif"
    \/ Exec(c).role = "case_check" /\ Exec(c).k = 1

\* step q is the end label of the construct entered at step c, with no
\* other entry of that construct in between
EndOfEntry(c, q) ==
    /\ c < q
    /\ Exec(q).at = Exec(c).at
    /\ Exec(q).role \in {"if_end", "switch_end"}
    /\ \A m \in (c + 1)..(q - 1) :
          Exec(m).at = Exec(c).at
          => ~ConstructEntered(m) /\ Exec(m).role \notin {"if_end", "switch_end"}

\* C26: at the end label of an if or a switch without goto and return, the
\* return stack is as deep as when the construct was entered
C26_ReturnStackBalanced ==
    Generated =>
        \A c, q \in 1..Len(trace) :
            /\ ConstructEntered(c)
            /\ JumpFree(NodeAt(ast, Exec(c).at))
            /\ EndOfEntry(c, q)
            => DepthBefore(q) = DepthBefore(c)

(***************************************************************************)
(* C27: a `return;` statement nested inside an if or else branch within a  *)
(* function body ends the execution of that function: in the emitted code, *)
(* once that RETURN executes, no instruction of the function placed after  *)
(* the conditional executes before control is back at the function's       *)
(* caller.                                                                 *)
(***************************************************************************)
\* step r executes the RETURN of a return statement in a branch of an if
\* that is a statement of a function body
ReturnInBranch(r) ==
    LET at == Exec(r).at
    IN  /\ Exec(r).op = "RETURN" /\ Exec(r).role = "stmt"
        /\ Len(at) >= 6
        /\ at[3] = "body" /\ at[5] \in {"then", "else"}
        /\ NodeAt(ast, SubSeq(at, 1, 2)).kind = "FunctionDeclaration"
        /\ NodeAt(ast, SubSeq(at, 1, 4)).kind = "IfStatement"

\* step q executes a line of a statement of the same function body placed
\* after the if the return of step r is in
AfterConditional(r, q) ==
    LET at == Exec(r).at
        a2 == Exec(q).at
    IN  /\ Len(a2) >= 4
        /\ SubSeq(a2, 1, 3) = SubSeq(at, 1, 3)
        /\ Num(a2[4]) > Num(at[4])

\* step m executes a line outside the function the return of step r is in
BackAtCaller(r, m) == ~IsPrefix(SubSeq(Exec(r).at, 1, 2), Exec(m).at)

\* C27: after the RETURN of a return statement in a branch of an if, no
\* line of a later statement of the function executes before a line outside
\* the function does
C27_ReturnEndsFunction ==
    Generated =>
        \A r, q \in 1..Len(trace) :
            r < q /\ ReturnInBranch(r) /\ AfterConditional(r, q)
            => \E m \in (r + 1)..(q - 1) : BackAtCaller(r, m)

(***************************************************************************)
(* C28: comments are transparent to parsing: for every token sequence that *)
(* parses to an AST, inserting a COMMENT token between any two tokens      *)
(* (inside an expression, before `else`, at the start or end of a switch,  *)
(* case, class or struct body, inside a parameter list) makes the parser   *)
(* return the same AST, with no ParseError and no dropped else branch.     *)
(***************************************************************************)
\* the token list with its COMMENT tokens taken out
WithoutComments(ts) == SelectSeq(ts, LAMBDA t : t.type # "COMMENT")

\* the token list is one that parses with one COMMENT token inserted
OneCommentInserted(ts) == Len(WithoutComments(ts)) + 1 = Len(ts)

\* C28: a token list with one comment in it parses to what it parses to
\* without the comment
C28_CommentsTransparent ==
    ParseEnded /\ OneCommentInserted(tokens) =>
        \A r \in {parse(WithoutComments(tokens))} :
            r.exc = NoFailure => failure = NoFailure /\ ast = r.node

(***************************************************************************)
(* C29: Parser.parse terminates on every finite token sequence that ends   *)
(* with an EOF token, either returning a Program or raising ParseError:    *)
(* every iteration of every parser loop (statement list, block, parameter  *)
(* and argument lists, array literal, class/struct/switch bodies, raw      *)
(* block, postfix chain) consumes at least one token or raises, although   *)
(* advance() never moves past the final EOF token.                         *)
(***************************************************************************)
\* what the loops repeat, started at any position of the token list: an
\* advance() before the EOF token moves on and at the EOF token stays; a
\* statement and an expression end behind where they started, or raise
Progress(ts) ==
    /\ \A p \in 1..(Len(ts) - 1) : parser_advance(ts, p) > p
    /\ parser_advance(ts, Len(ts)) = Len(ts)
    /\ \A p \in 1..Len(ts) :
          /\ \A r \in {parse_statement(ts, p)} : r.exc # NoFailure \/ r.pos > p
          /\ \A r \in {parse_expression(ts, p)} : r.exc # NoFailure \/ r.pos > p

C30_EnteredOnlyByCall ==
    Generated =>
        \A q \in 1..Len(trace) :
            Exec(q).role = "func_label" =>
                /\ q > 1
                /\ Exec(q - 1).op \in {"CALL", "CALLIF", "THREAD"}
                /\ Exec(q - 1).a = Exec(q).a

====
